---- MODULE Spec2Model ----
(***************************************************************************)
(* A model of the argus platform's graph store (store_extraction and its   *)
(* Cypher upserts), its scheduler loops, the trigger handler and the run   *)
(* registry.                                                               *)
(*                                                                         *)
(* Conventions.                                                            *)
(*  - A Rust Option is a record: None, or Some(x) with field val.          *)
(*  - An entity name is a sequence of one-character strings, so that       *)
(*    toLower is computed character by character.                          *)
(*  - A confidence (an f64 in [0,1]) is an integer number of tenths; a     *)
(*    time is an integer instant.                                          *)
(*  - A node of the graph is an index into nodes: the index is the         *)
(*    database's node identity, independent of the node's id property.     *)
(***************************************************************************)
EXTENDS Integers, Sequences, FiniteSets, TLC

VARIABLES
    nodes,      \* committed entity nodes of the graph, in creation order
    edges,      \* committed relationship edges, in creation order
    txn,        \* the open transaction of the store_extraction call in progress
    lastStore,  \* what the last store_extraction call returned, and the writes it had issued
    writes,     \* number of entity and relationship writes issued so far
    vocab,      \* the vocabulary the callers' values are drawn from
    runs,       \* the run registry: Vec<AgentRunStatus>, oldest first
    nextRunId,  \* the next fresh run_id (Uuid::new_v4)
    loops,      \* the scheduler's agent_loop task of each scheduled agent
    pipelines,  \* the tasks spawned by trigger_agent that have not finished
    response,   \* the last response of trigger_agent
    scheduled,  \* the run_ids minted by the scheduler's loops
    started,    \* number of loop turns begun and trigger requests answered so far
    env,        \* the environment variables that are set (std::env)
    sched,      \* run_scheduler: the index of the SCHEDULES entry it handles next
    spawned,    \* the agents of the agent_loop tasks run_scheduler has spawned, in order
    llm,        \* the LLM's response, deserialized (LlmExtractionOutput)
    parsed,     \* what parse_llm_response returned for it
    documents,  \* extract_batch: the documents of the batch
    join_set,   \* extract_batch: the spawned tasks (tokio JoinSet), by document
    extraction_results, \* extract_batch: the results pushed so far
    errors,     \* extract_batch: the error messages pushed so far
    batch,      \* extract_batch: its position, and what it returned
    engine,     \* query(): its position and its locals, then what it returned
    llm_calls,  \* query(): the call_llm calls made so far, in order
    graph_calls,\* query(): the queries passed to execute_cypher so far, in order
    fields,     \* the fields a canonical interpretation was emitted from, if it was
    interpretation, \* the text the interpretation call returned
    interpreted,\* what parse_interpretation returned for it
    agent_state, \* each agent's last_run, documents_collected and last_error
    collects,   \* the collect calls begun so far, in order
    sanctions_state, \* the sanctions agent's AgentState (enabled, last_run, documents_collected, last_error)
    paging,     \* OpenSanctionsAgent::collect: its position, its locals and what it returned
    csv,        \* parse_events: the rows of the export, as csv.lines() and split give them
    events,     \* parse_events: its position and the documents it returned
    raw_json,   \* the text of the extraction LLM's response, token by token
    parse_result \* what parse_llm_response made of the text

graphVars == <<nodes, edges, txn, lastStore, writes, vocab>>

runVars == <<runs, nextRunId, loops, pipelines, response, scheduled, started, env, sched, spawned>>

parseVars == <<llm, parsed>>

batchVars == <<documents, join_set, extraction_results, errors, batch>>

engineVars == <<engine, llm_calls, graph_calls>>

interpretVars == <<fields, interpretation, interpreted>>

agentVars == <<agent_state, collects>>

pageVars == <<sanctions_state, paging>>

eventVars == <<csv, events>>

textVars == <<raw_json, parse_result>>

vars == <<nodes, edges, txn, lastStore, writes, vocab,
          runs, nextRunId, loops, pipelines, response, scheduled, started, env, sched, spawned,
          llm, parsed,
          documents, join_set, extraction_results, errors, batch,
          engine, llm_calls, graph_calls,
          fields, interpretation, interpreted,
          agent_state, collects,
          sanctions_state, paging,
          csv, events,
          raw_json, parse_result>>

----------------------------------------------------------------------------
(* Bounds *)

\* total entity/relationship writes (txn.run calls) over a behaviour
MaxWrites == 3
\* loop turns begun and trigger requests answered over a behaviour
MaxRuns == 2

----------------------------------------------------------------------------
(* Option<T> *)

None == [some |-> FALSE]

Some(x) == [some |-> TRUE, val |-> x]

\* Option::unwrap_or_default for Option<String>
UnwrapOrDefault(o) == IF o.some THEN o.val ELSE ""

Range(s) == {s[i] : i \in DOMAIN s}

----------------------------------------------------------------------------
(* Input domains *)

Sources == {"gdelt", "opensanctions"}

\* The values the callers draw entities and relationships from.  Each
\* vocabulary varies a few fields and keeps the others fixed:
\*   "keys"        the upsert keys: two ids, with and without a source_id,
\*                 names equal ignoring case;
\*   "confidence"  two confidences (0.6 and 0.9) on every upsert path;
\*   "types"       two entity types, two relation types, two different names.
Vocabularies == {"keys", "confidence", "types"}

\* Two more, for the relationship upsert and for the nodes' times:
\*   "timestamps"  relationships with and without a timestamp, two instants,
\*                 two confidences, between two entities of one source;
\*   "times"       entities created at two instants, of either source.

\* entity ids (Uuid values)
Ids(v) == IF v = "confidence" THEN {1} ELSE {1, 2}

EntityTypes(v) ==
    IF v = "types" THEN {"person", "organization"} ELSE {"organization"}

\* "Ac" and "ac" are equal ignoring case, "Bo" differs from both
Names(v) ==
    CASE v = "types" -> {<<"A", "c">>, <<"B", "o">>}
      [] v \in {"timestamps", "times"} -> {<<"A", "c">>}
      [] OTHER -> {<<"A", "c">>, <<"a", "c">>}

\* the agents whose entities are stored
EntitySources(v) == IF v = "timestamps" THEN {"gdelt"} ELSE Sources

SourceIds(v) == IF v \in {"types", "timestamps", "times"} THEN {None} ELSE {None, Some("x")}

Confidences(v) == IF v = "confidence" THEN {6, 9} ELSE {9}

\* the instants at which entities are created (Utc::now() in Entity::new)
Times(v) == IF v = "times" THEN {1, 2} ELSE {1}

\* confidences of relationships
RelationConfidences(v) == IF v = "timestamps" THEN {6, 9} ELSE Confidences(v)

\* Relationship.timestamp, an Option<DateTime<Utc>>
Timestamps(v) ==
    IF v = "timestamps" THEN {None, Some(1), Some(2)} ELSE {Some(ts) : ts \in {1}}

RelationTypes(v) == IF v = "types" THEN {"director_of", "owner_of"} ELSE {"director_of"}

RelationSources(v) == IF v \in {"types", "timestamps", "times"} THEN {"gdelt"} ELSE Sources

\* aliases and properties are opaque JSON values
Payloads(v) == {"{}"}

\* Entity values; a freshly built entity has first_seen = last_seen
Entities(v) ==
    { [id |-> i, entity_type |-> t, name |-> n, aliases |-> p, properties |-> p,
       source |-> s, source_id |-> sid, confidence |-> c,
       first_seen |-> ts, last_seen |-> ts] :
        i \in Ids(v), t \in EntityTypes(v), n \in Names(v), p \in Payloads(v),
        s \in EntitySources(v), sid \in SourceIds(v), c \in Confidences(v), ts \in Times(v) }

\* the (source entity id, target entity id) pairs of relationships
Endpoints(v) ==
    IF v = "timestamps" THEN {<<1, 2>>, <<2, 1>>} ELSE Ids(v) \X Ids(v)

Relationships(v) ==
    { [id |-> 1, source_entity_id |-> ab[1], target_entity_id |-> ab[2], relation_type |-> t,
       properties |-> p, confidence |-> c, source |-> s, timestamp |-> ts] :
        ab \in Endpoints(v), t \in RelationTypes(v), p \in Payloads(v),
        c \in RelationConfidences(v), s \in RelationSources(v), ts \in Timestamps(v) }

----------------------------------------------------------------------------
(* Conversions *)

\* Cypher toLower on one character of the names' alphabet
LowerChar(ch) ==
    CASE ch = "A" -> "a"
      [] ch = "B" -> "b"
      [] ch = "C" -> "c"
      [] ch = "O" -> "o"
      [] OTHER -> ch

toLower(name) == [i \in DOMAIN name |-> LowerChar(name[i])]

entity_type_to_label(et) ==
    CASE et = "person" -> "Person"
      [] et = "organization" -> "Organization"
      [] et = "vessel" -> "Vessel"
      [] et = "aircraft" -> "Aircraft"
      [] et = "location" -> "Location"
      [] et = "event" -> "Event"
      [] et = "document" -> "Document"
      [] et = "transaction" -> "Transaction"
      [] et = "sanction" -> "Sanction"

relation_type_to_label(rt) ==
    CASE rt = "owner_of" -> "OWNER_OF"
      [] rt = "director_of" -> "DIRECTOR_OF"
      [] rt = "employee_of" -> "EMPLOYEE_OF"
      [] rt = "related_to" -> "RELATED_TO"
      [] rt = "located_at" -> "LOCATED_AT"
      [] rt = "transacted_with" -> "TRANSACTED_WITH"
      [] rt = "sanctioned_by" -> "SANCTIONED_BY"
      [] rt = "registered_in" -> "REGISTERED_IN"
      [] rt = "flagged_as" -> "FLAGGED_AS"
      [] rt = "meeting_with" -> "MEETING_WITH"
      [] rt = "traveled_to" -> "TRAVELED_TO"
      [] rt = "part_of" -> "PART_OF"

\* DateTime::to_rfc3339: the text of an instant; never the empty string
to_rfc3339(t) == <<"rfc3339", t>>

\* DateTime::parse_from_rfc3339 of such a text: the instant it denotes
parse_from_rfc3339(text) == text[2]

\* rel.timestamp.map(|t| t.to_rfc3339()).unwrap_or_default(); <<>> is ""
timestamp_str(ts) == IF ts.some THEN to_rfc3339(ts.val) ELSE <<>>

----------------------------------------------------------------------------
(* The entity upsert query of store_extraction *)

\* mutant: the names are compared as they are, not ignoring case
CrossSourceMatchesCaseSensitive(ns, e) ==
    { i \in DOMAIN ns :
        /\ ns[i].label = entity_type_to_label(e.entity_type)
        /\ ns[i].name = e.name
        /\ ns[i].source # e.source }

\* OPTIONAL MATCH (existing:Label WHERE toLower(existing.name) = toLower($name)
\*                 AND existing.source <> $source): one row per such node
CrossSourceMatches(ns, e) ==
    { i \in DOMAIN ns :
        /\ ns[i].label = entity_type_to_label(e.entity_type)
        /\ toLower(ns[i].name) = toLower(e.name)
        /\ ns[i].source # e.source }

\* mutant: the source is appended whether or not the list holds it
AddSourceAlways(sources, s) == Append(sources, s)

\* CASE WHEN NOT $source IN n.sources THEN n.sources + $source ELSE n.sources END
\* (the IS NULL branch concerns nodes this code did not create)
AddSource(sources, s) ==
    IF s \notin Range(sources) THEN Append(sources, s) ELSE sources

\* CASE WHEN $confidence > existing.confidence THEN $confidence
\*      ELSE existing.confidence END
MaxConfidenceOf(old, new) == IF new > old THEN new ELSE old

\* mutant: the merge also takes the incoming entity's name
MergeOntoExistingRenames(n, e) ==
    [n EXCEPT !.sources = AddSource(n.sources, e.source),
              !.name = e.name,
              !.aliases = e.aliases,
              !.properties = e.properties,
              !.confidence = MaxConfidenceOf(n.confidence, e.confidence),
              !.last_seen = to_rfc3339(e.last_seen)]

\* first FOREACH: SET on the existing node found by the cross-source match
MergeOntoExisting(n, e) ==
    [n EXCEPT !.sources = AddSource(n.sources, e.source),
              !.aliases = e.aliases,
              !.properties = e.properties,
              !.confidence = MaxConfidenceOf(n.confidence, e.confidence),
              !.last_seen = to_rfc3339(e.last_seen)]

\* MERGE (n:Label {source: $source, source_id: $source_id}) when the entity has
\* a source_id, MERGE (n:Label {id: $id}) when it has none: the nodes it matches
KeyMatches(ns, e) ==
    IF e.source_id.some
    THEN { i \in DOMAIN ns :
             /\ ns[i].label = entity_type_to_label(e.entity_type)
             /\ ns[i].source = e.source
             /\ ns[i].source_id = UnwrapOrDefault(e.source_id) }
    ELSE { i \in DOMAIN ns :
             /\ ns[i].label = entity_type_to_label(e.entity_type)
             /\ ns[i].id = e.id }

\* ON MATCH SET of either MERGE
OnMatchSet(n, e) ==
    [n EXCEPT !.name = e.name,
              !.aliases = e.aliases,
              !.properties = e.properties,
              !.confidence = e.confidence,
              !.last_seen = to_rfc3339(e.last_seen),
              !.sources = AddSource(n.sources, e.source)]

\* ON CREATE SET of either MERGE, with the properties of the MERGE pattern
OnCreateSet(e) ==
    [label |-> entity_type_to_label(e.entity_type),
     id |-> e.id,
     name |-> e.name,
     source |-> e.source,
     source_id |-> UnwrapOrDefault(e.source_id),
     aliases |-> e.aliases,
     properties |-> e.properties,
     confidence |-> e.confidence,
     first_seen |-> to_rfc3339(e.first_seen),
     last_seen |-> to_rfc3339(e.last_seen),
     sources |-> <<e.source>>]

\* The nodes one run of the entity query writes
WrittenNodes(ns, e) ==
    IF CrossSourceMatches(ns, e) # {} THEN CrossSourceMatches(ns, e)
    ELSE IF KeyMatches(ns, e) # {} THEN KeyMatches(ns, e)
    ELSE {Len(ns) + 1}

\* One run of the entity query on the nodes ns
StoreEntity(ns, e) ==
    IF CrossSourceMatches(ns, e) # {}
    THEN [i \in DOMAIN ns |->
            IF i \in CrossSourceMatches(ns, e) THEN MergeOntoExisting(ns[i], e) ELSE ns[i]]
    ELSE IF KeyMatches(ns, e) # {}
    THEN [i \in DOMAIN ns |->
            IF i \in KeyMatches(ns, e) THEN OnMatchSet(ns[i], e) ELSE ns[i]]
    ELSE Append(ns, OnCreateSet(e))

----------------------------------------------------------------------------
(* The relationship upsert query of store_extraction *)

\* MATCH (a {id: $source_id}) MATCH (b {id: $target_id}): one row per pair
EndpointPairs(ns, r) ==
    { <<a, b>> : a \in {i \in DOMAIN ns : ns[i].id = r.source_entity_id},
                 b \in {i \in DOMAIN ns : ns[i].id = r.target_entity_id} }

\* MERGE (a)-[r:TYPE {source: $source}]->(b): the edges it matches for a row
EdgeMatches(es, a, b, r) ==
    { k \in DOMAIN es :
        /\ es[k].a = a
        /\ es[k].b = b
        /\ es[k].label = relation_type_to_label(r.relation_type)
        /\ es[k].source = r.source }

\* mutant: a match always writes the incoming timestamp, empty or not
OnMatchEdgeReplacesTimestamp(ed, r) ==
    [ed EXCEPT !.properties = r.properties,
               !.confidence = MaxConfidenceOf(ed.confidence, r.confidence),
               !.timestamp = timestamp_str(r.timestamp)]

\* ON MATCH SET of the relationship MERGE
OnMatchEdge(ed, r) ==
    [ed EXCEPT !.properties = r.properties,
               !.confidence = MaxConfidenceOf(ed.confidence, r.confidence),
               !.timestamp = IF timestamp_str(r.timestamp) # <<>>
                             THEN timestamp_str(r.timestamp) ELSE ed.timestamp]

OnCreateEdge(a, b, r) ==
    [a |-> a, b |-> b,
     label |-> relation_type_to_label(r.relation_type),
     source |-> r.source,
     id |-> r.id,
     properties |-> r.properties,
     confidence |-> r.confidence,
     timestamp |-> timestamp_str(r.timestamp)]

\* the rows of a set of endpoint pairs in a fixed order
RECURSIVE PairsInOrder(_)
PairsInOrder(ps) ==
    IF ps = {} THEN <<>>
    ELSE LET p == CHOOSE x \in ps :
                    \A y \in ps : x[1] < y[1] \/ (x[1] = y[1] /\ x[2] <= y[2])
         IN <<p>> \o PairsInOrder(ps \ {p})

\* mutant: CREATE in place of MERGE
MergeNeverFindsEdge(es, a, b, r) == FALSE

\* whether MERGE finds an edge for the row (a, b), or creates one
MergeFindsEdge(es, a, b, r) == EdgeMatches(es, a, b, r) # {}

\* One run of the relationship query on the nodes ns and the edges es
StoreRelationship(ns, es, r) ==
    LET pairs == EndpointPairs(ns, r)
        matched == UNION { EdgeMatches(es, p[1], p[2], r) : p \in pairs }
        fresh == PairsInOrder({ p \in pairs : ~MergeFindsEdge(es, p[1], p[2], r) })
    IN [k \in DOMAIN es |-> IF k \in matched THEN OnMatchEdge(es[k], r) ELSE es[k]]
       \o [k \in DOMAIN fresh |-> OnCreateEdge(fresh[k][1], fresh[k][2], r)]

----------------------------------------------------------------------------
(* store_extraction: one transaction per call *)

NoTxn ==
    [active |-> FALSE, nodes |-> <<>>, edges |-> <<>>,
     entities |-> <<>>, relationships |-> <<>>, wrote |-> <<>>]

\* mutant: the writes are not made in the transaction and survive its drop
RollbackKeepsWrites(committed, working) == working

\* what the graph holds once a transaction is dropped without commit
Rollback(committed, working) == committed

\* what the graph holds once txn.commit() has succeeded
Commit(committed, working) == working

\* self.graph()?.start_txn() succeeds
StartTxn ==
    /\ ~txn.active
    /\ writes < MaxWrites
    /\ txn' = [active |-> TRUE, nodes |-> nodes, edges |-> edges,
               entities |-> <<>>, relationships |-> <<>>, wrote |-> <<>>]
    /\ lastStore' = [outcome |-> "pending", entities |-> 0, relationships |-> 0]
    /\ UNCHANGED <<nodes, edges, writes, vocab>>

\* the store is not connected, or start_txn fails or times out
StartTxnFails ==
    /\ ~txn.active
    /\ lastStore' = [outcome |-> "err", entities |-> 0, relationships |-> 0]
    /\ UNCHANGED <<nodes, edges, txn, writes, vocab>>

\* one iteration of `for entity in &result.entities` whose txn.run succeeds
RunEntity(e) ==
    /\ txn.active
    /\ txn.relationships = <<>>
    /\ writes < MaxWrites
    /\ txn' = [txn EXCEPT !.nodes = StoreEntity(txn.nodes, e),
                          !.entities = Append(txn.entities, e),
                          !.wrote = Append(txn.wrote, WrittenNodes(txn.nodes, e))]
    /\ writes' = writes + 1
    /\ UNCHANGED <<nodes, edges, lastStore, vocab>>

\* one iteration of `for rel in &result.relationships` whose txn.run succeeds
RunRelationship(r) ==
    /\ txn.active
    /\ writes < MaxWrites
    /\ txn' = [txn EXCEPT !.edges = StoreRelationship(txn.nodes, txn.edges, r),
                          !.relationships = Append(txn.relationships, r)]
    /\ writes' = writes + 1
    /\ UNCHANGED <<nodes, edges, lastStore, vocab>>

\* a txn.run of an entity or a relationship, or txn.commit, returns an error:
\* the function returns through `?` and the transaction is dropped
WriteFails ==
    /\ txn.active
    /\ nodes' = Rollback(nodes, txn.nodes)
    /\ edges' = Rollback(edges, txn.edges)
    /\ lastStore' = [outcome |-> "err", entities |-> Len(txn.entities),
                     relationships |-> Len(txn.relationships)]
    /\ txn' = NoTxn
    /\ UNCHANGED <<writes, vocab>>

\* txn.commit() succeeds and store_extraction returns Ok(())
CommitTxn ==
    /\ txn.active
    /\ nodes' = Commit(nodes, txn.nodes)
    /\ edges' = Commit(edges, txn.edges)
    /\ lastStore' = [outcome |-> "ok", entities |-> Len(txn.entities),
                     relationships |-> Len(txn.relationships)]
    /\ txn' = NoTxn
    /\ UNCHANGED <<writes, vocab>>

\* an empty graph, no store_extraction call made yet
GraphEmpty ==
    /\ nodes = <<>>
    /\ edges = <<>>
    /\ txn = NoTxn
    /\ lastStore = [outcome |-> "pending", entities |-> 0, relationships |-> 0]
    /\ writes = 0

GraphInit == GraphEmpty /\ vocab \in Vocabularies

GraphNext ==
    \/ StartTxn
    \/ StartTxnFails
    \/ \E e \in Entities(vocab) : RunEntity(e)
    \/ \E r \in Relationships(vocab) : RunRelationship(r)
    \/ WriteFails
    \/ CommitTxn

----------------------------------------------------------------------------
(* The run registry, the scheduler's loops and the trigger handler *)

\* `if runs_lock.len() > 100`: the length the scheduler trims the registry to
RUN_CAP == 100

\* the agent registry (state.agents), and a name that is not in it
Agents == {"gdelt", "opensanctions", "ais"}

UnknownAgents == {"nope"}

\* SCHEDULES: the entries of these agents, in the order of the table
SCHEDULES ==
    << [name |-> "gdelt", requires_env |-> None],
       [name |-> "opensanctions", requires_env |-> None],
       [name |-> "ais", requires_env |-> Some("AISHUB_API_KEY")] >>

\* the environment variables run_scheduler asks for
EnvVars == {"AISHUB_API_KEY"}
\* mutant: the environment variable is never asked for
MissingEnvNever(schedule, e) == FALSE

\* `if let Some(env_var) = schedule.requires_env { if std::env::var(env_var).is_err()`
MissingEnv(schedule, e) == schedule.requires_env.some /\ schedule.requires_env.val \notin e

\* whether run_scheduler spawns a loop for the entry: neither `continue` is taken
Eligible(schedule, e) == ~MissingEnv(schedule, e) /\ schedule.name \in Agents

\* the agents whose loop run_scheduler has spawned once it has handled every
\* entry, no environment variable being set
ScheduledAgents == { SCHEDULES[i].name : i \in { j \in DOMAIN SCHEDULES : Eligible(SCHEDULES[j], {}) } }

\* the tokio::spawn calls run_scheduler has made once it has handled every
\* entry, the environment variables e being set
SpawnedWithout(e) ==
    LET entries == SelectSeq(SCHEDULES, LAMBDA sc : Eligible(sc, e))
    IN  [i \in DOMAIN entries |-> entries[i].name]

\* Utc::now()
Now == "now"

\* the numbers of documents a collect returns; two where the extraction
\* results hold entities other agents can look up
DocCounts == IF vocab = "lookups" THEN {0, 1, 2} ELSE {0, 1}

\* the numbers of results extract_batch returns for n documents when it
\* returns Ok: at least one document succeeded
ResultCounts(n) == 1..n

\* the entities of one extraction result, as cross_reference reads them (name
\* and type): in the vocabulary "lookups" a vessel and a person, which other
\* agents can look up; in the others two locations, which no agent can
ExtractedEntities(v) ==
    IF v = "lookups"
    THEN << [name |-> "Vega", entity_type |-> "vessel"],
            [name |-> "Ann", entity_type |-> "person"] >>
    ELSE << [name |-> "Oslo", entity_type |-> "location"],
            [name |-> "Rome", entity_type |-> "location"] >>

\* the k extraction results an extract_batch returns
ExtractionResults(v, k) == [i \in 1..k |-> ExtractedEntities(v)]

\* extraction_results.iter().map(|r| r.entities.len() as u64).sum()
RECURSIVE entity_count(_)
entity_count(results) ==
    IF results = <<>> THEN 0 ELSE Len(Head(results)) + entity_count(Tail(results))

\* the numbers of entities k extraction results hold in all
EntityCounts(k) == {entity_count(ExtractionResults(vocab, k))}

\* all_agents: the registry as cross_reference iterates it
all_agents == <<"gdelt", "opensanctions", "ais">>

\* the downcast chain of cross_reference names every agent type of the registry
downcast_lookup(agent) == agent \in Agents

\* impl AgentLookup for AisAgent: can_lookup is
\* matches!(entity_type, EntityType::Vessel), lookup always Ok(Vec::new())
AisCanLookup(et) == et = "vessel"
AisLookupOutcomes == {"empty"}

\* the AgentLookup of the agents the downcast chain names beside AisAgent:
\* can_lookup(entity_type) -> bool and lookup(name, entity_type) ->
\* Result<[RawDocument]>. The sanctions agent stands for an implementor that
\* accepts persons, and whose lookup returns an error, no document or
\* documents; the news agent for one that accepts nothing
OtherCanLookup(agent, et) == agent = "opensanctions" /\ et = "person"
OtherLookupOutcomes == {"err", "empty", "docs"}

\* lookup.can_lookup(&entity.entity_type), dispatched on the agent
can_lookup(agent, et) ==
    IF agent = "ais" THEN AisCanLookup(et) ELSE OtherCanLookup(agent, et)

\* what lookup.lookup(&entity.name, &entity.entity_type).await can return
LookupOutcomes(agent) ==
    IF agent = "ais" THEN AisLookupOutcomes ELSE OtherLookupOutcomes

\* `for (name, agent) in all_agents` for one entity
RECURSIVE EntityTargets(_, _)
EntityTargets(entity, agents) ==
    IF agents = <<>> THEN <<>>
    ELSE <<[entity |-> entity, agent |-> Head(agents)]>> \o EntityTargets(entity, Tail(agents))

\* `for entity in &result.entities`
RECURSIVE ResultTargets(_)
ResultTargets(entities) ==
    IF entities = <<>> THEN <<>>
    ELSE EntityTargets(Head(entities), all_agents) \o ResultTargets(Tail(entities))

\* `for result in extraction_results`
RECURSIVE AllTargets(_)
AllTargets(results) ==
    IF results = <<>> THEN <<>> ELSE ResultTargets(Head(results)) \o AllTargets(Tail(results))

\* mutant: the producing agent is not passed over
ReachesLookupOnSource(source_agent, t) ==
    /\ downcast_lookup(t.agent)
    /\ can_lookup(t.agent, t.entity.entity_type)

\* whether the body of the innermost loop reaches lookup.lookup: none of the
\* three `continue`s is taken
ReachesLookup(source_agent, t) ==
    /\ t.agent # source_agent
    /\ downcast_lookup(t.agent)
    /\ can_lookup(t.agent, t.entity.entity_type)

\* the lookups cross_reference makes, in order
LookupTargets(source_agent, results) ==
    SelectSeq(AllTargets(results), LAMBDA t : ReachesLookup(source_agent, t))

\* the error texts of collect, extract_batch and store_extraction
CollectError == "agent error"

ExtractError == "extraction failed"

StoreError == "graph error"

\* format!("{} storage errors", store_errors)
StorageErrorsMessage(n) ==
    CASE n = 1 -> "1 storage errors"
      [] n = 2 -> "2 storage errors"
      [] n = 3 -> "3 storage errors"
      [] OTHER -> "4 storage errors"

\* format!("Collection failed: {}", e) and its siblings in run_agent_pipeline
PipelineErrorMessage(stage) ==
    CASE stage = "collect" -> "Collection failed: agent error"
      [] stage = "extract" -> "Extraction failed: extraction failed"
      [] stage = "store" -> "Graph storage failed: graph error"

\* the AgentRunStatus both the scheduler and the trigger handler build
NewRun(id, agent) ==
    [run_id |-> id, agent_name |-> agent, status |-> "running", started_at |-> Now,
     finished_at |-> None, documents_collected |-> 0, entities_extracted |-> 0,
     error |-> None]

\* mutant: the newest records are drained
DrainNewest(rs, n) == SubSeq(rs, 1, Len(rs) - n)

\* runs_lock.drain(0..drain_count)
Drain(rs, n) == SubSeq(rs, n + 1, Len(rs))

\* agent_loop: push, then keep only the last 100 runs
PushCapped(rs, r) ==
    LET pushed == Append(rs, r)
    IN IF Len(pushed) > RUN_CAP THEN Drain(pushed, Len(pushed) - RUN_CAP) ELSE pushed

\* mutant: the run is not registered
PushTriggeredNowhere(rs, r) == rs

\* trigger_agent: runs.push(run_status)
PushTriggered(rs, r) == Append(rs, r)

\* mutant: when no record has the id, the oldest record is taken
FindRunOrOldest(rs, id) ==
    LET found == {i \in DOMAIN rs : rs[i].run_id = id}
    IN IF found = {} THEN (IF rs = <<>> THEN 0 ELSE 1)
       ELSE CHOOSE i \in found : \A j \in found : i <= j

\* runs_lock.iter_mut().find(|r| r.run_id == run_id): the first such index, or 0
FindRun(rs, id) ==
    LET found == {i \in DOMAIN rs : rs[i].run_id = id}
    IN IF found = {} THEN 0 ELSE CHOOSE i \in found : \A j \in found : i <= j

\* mutant: update_run forgets finished_at
update_run_without_finished_at(rs, id, status, docs, entities, error) ==
    LET i == FindRun(rs, id)
    IN IF i = 0 THEN rs
       ELSE [rs EXCEPT ![i] =
               [@ EXCEPT !.status = status,
                         !.documents_collected = docs,
                         !.entities_extracted = entities,
                         !.error = error]]

\* scheduler.rs update_run
update_run(rs, id, status, docs, entities, error) ==
    LET i == FindRun(rs, id)
    IN IF i = 0 THEN rs
       ELSE [rs EXCEPT ![i] =
               [@ EXCEPT !.status = status,
                         !.finished_at = Some(Now),
                         !.documents_collected = docs,
                         !.entities_extracted = entities,
                         !.error = error]]

\* the completion block of the task trigger_agent spawns; result is
\* [ok |-> TRUE, docs, entities] or [ok |-> FALSE, error]
CompleteTriggered(rs, id, result) ==
    LET i == FindRun(rs, id)
    IN IF i = 0 THEN rs
       ELSE [rs EXCEPT ![i] =
               IF result.ok
               THEN [@ EXCEPT !.finished_at = Some(Now),
                              !.status = "completed",
                              !.documents_collected = result.docs,
                              !.entities_extracted = result.entities]
               ELSE [@ EXCEPT !.finished_at = Some(Now),
                              !.status = "failed",
                              !.error = Some(result.error)]]

\* GET /api/agents/runs: runs.iter().rev().cloned().collect()
list_runs(rs) == [i \in DOMAIN rs |-> rs[Len(rs) + 1 - i]]

\* a task of the pipeline: where it is (pc), the run it belongs to, the number
\* of documents collected, of extraction results left to store, of entities
\* extracted and of storage errors, and the calls it has completed (calls);
\* the extraction results, and in cross_reference the lookups still to make
\* (targets), those made (lookups), the results of a lookup's documents left
\* to store (xref_left) and the kinds of failure met so far (xref_failures)
IdleTask ==
    [pc |-> "start", run_id |-> 0, doc_count |-> 0, to_store |-> 0,
     entity_count |-> 0, store_errors |-> 0, calls |-> <<>>,
     results |-> <<>>, targets |-> <<>>, lookups |-> <<>>, xref_left |-> 0,
     xref_failures |-> {}]

\* mutant: the documents go to the store without extraction
AfterCollectSkipsExtract(n) == IF n = 0 THEN "finish" ELSE "store"

\* where a run goes after collect returned Ok with n documents
AfterCollect(n) == IF n = 0 THEN "finish" ELSE "extract"

\* where the store loop goes once a store_extraction call has returned
AfterStore(left) == IF left = 0 THEN "cross_reference" ELSE "store"

----------------------------------------------------------------------------
(* agent_loop *)

\* top of the loop: mint a run_id, register the run and trim the registry
LoopStartRun(a) ==
    /\ loops[a].pc = "start"
    /\ started < MaxRuns
    /\ runs' = PushCapped(runs, NewRun(nextRunId, a))
    /\ scheduled' = scheduled \cup {nextRunId}
    /\ loops' = [loops EXCEPT ![a] = [IdleTask EXCEPT !.pc = "collect", !.run_id = nextRunId]]
    /\ nextRunId' = nextRunId + 1
    /\ started' = started + 1
    /\ UNCHANGED <<pipelines, response, env, sched, spawned>>

\* mutant: the failure of collect is not recorded
LoopCollectFailsUnmarked(a) ==
    /\ loops[a].pc = "collect"
    /\ runs' = runs
    /\ loops' = [loops EXCEPT ![a].pc = "sleep", ![a].calls = Append(@, "collect")]
    /\ UNCHANGED <<nextRunId, pipelines, response, scheduled, started, env, sched, spawned>>

\* agent.collect() returns Err: mark the run failed and sleep
LoopCollectFails(a) ==
    /\ loops[a].pc = "collect"
    /\ runs' = update_run(runs, loops[a].run_id, "failed", 0, 0, Some(CollectError))
    /\ loops' = [loops EXCEPT ![a].pc = "sleep", ![a].calls = Append(@, "collect")]
    /\ UNCHANGED <<nextRunId, pipelines, response, scheduled, started, env, sched, spawned>>

\* agent.collect() returns Ok with n documents; with none the run is completed
LoopCollectOk(a, n) ==
    /\ loops[a].pc = "collect"
    /\ IF AfterCollect(n) = "finish"
       THEN /\ runs' = update_run(runs, loops[a].run_id, "completed", 0, 0, None)
            /\ loops' = [loops EXCEPT ![a].pc = "sleep", ![a].calls = Append(@, "collect")]
       ELSE /\ runs' = runs
            /\ loops' = [loops EXCEPT ![a].pc = AfterCollect(n), ![a].doc_count = n,
                                      ![a].calls = Append(@, "collect")]
    /\ UNCHANGED <<nextRunId, pipelines, response, scheduled, started, env, sched, spawned>>

\* mutant: the failure of extract_batch is not recorded
LoopExtractFailsUnmarked(a) ==
    /\ loops[a].pc = "extract"
    /\ runs' = runs
    /\ loops' = [loops EXCEPT ![a].pc = "sleep", ![a].calls = Append(@, "extract")]
    /\ UNCHANGED <<nextRunId, pipelines, response, scheduled, started, env, sched, spawned>>

\* extraction.extract_batch returns Err: mark the run failed and sleep
LoopExtractFails(a) ==
    /\ loops[a].pc = "extract"
    /\ runs' = update_run(runs, loops[a].run_id, "failed", loops[a].doc_count, 0,
                          Some(ExtractError))
    /\ loops' = [loops EXCEPT ![a].pc = "sleep", ![a].calls = Append(@, "extract")]
    /\ UNCHANGED <<nextRunId, pipelines, response, scheduled, started, env, sched, spawned>>

\* extract_batch returns Ok with k results holding m entities in all
LoopExtractOk(a, k, m) ==
    /\ loops[a].pc = "extract"
    /\ loops' = [loops EXCEPT ![a].pc = "store", ![a].to_store = k, ![a].entity_count = m,
                              ![a].results = ExtractionResults(vocab, k),
                              ![a].calls = Append(@, "extract")]
    /\ UNCHANGED <<runs, nextRunId, pipelines, response, scheduled, started, env, sched, spawned>>

\* one graph.store_extraction(result) of the store loop returns; an error is counted
LoopStore(a, ok) ==
    /\ loops[a].pc = "store"
    /\ loops' = [loops EXCEPT ![a].pc = AfterStore(loops[a].to_store - 1),
                              ![a].to_store = @ - 1,
                              ![a].store_errors = IF ok THEN @ ELSE @ + 1,
                              ![a].targets = IF AfterStore(loops[a].to_store - 1) = "cross_reference"
                                             THEN LookupTargets(a, loops[a].results) ELSE @,
                              ![a].calls = Append(@, "store")]
    /\ UNCHANGED <<runs, nextRunId, pipelines, response, scheduled, started, env, sched, spawned>>

\* cross_reference: lookup.lookup(&entity.name, &entity.entity_type) returns for
\* the next entity and agent the loops reach it for; an error and an empty
\* list are passed over, documents go to extract_batch
XrefLookup(a, outcome) ==
    /\ loops[a].pc = "cross_reference"
    /\ loops[a].targets # <<>>
    /\ outcome \in LookupOutcomes(Head(loops[a].targets).agent)
    /\ loops' = [loops EXCEPT
          ![a].pc = IF outcome = "docs" THEN "xref_extract" ELSE "cross_reference",
          ![a].targets = Tail(@),
          ![a].lookups = Append(@, Head(loops[a].targets)),
          ![a].xref_failures = IF outcome = "err" THEN @ \cup {"lookup"} ELSE @]
    /\ UNCHANGED <<runs, nextRunId, pipelines, response, scheduled, started, env, sched, spawned>>

\* mutant: the entities of a lookup's results are cross-referenced in turn
XrefExtractRecurses(a, k) ==
    /\ loops[a].pc = "xref_extract"
    /\ loops' = [loops EXCEPT
          ![a].pc = IF k = 0 THEN "cross_reference" ELSE "xref_store",
          ![a].xref_left = k,
          ![a].targets = @ \o LookupTargets(a, ExtractionResults(vocab, k)),
          ![a].xref_failures = IF k = 0 THEN @ \cup {"extract"} ELSE @]
    /\ UNCHANGED <<runs, nextRunId, pipelines, response, scheduled, started, env, sched, spawned>>

\* cross_reference: extraction.extract_batch(&docs) returns Err (k = 0), which
\* is logged, or Ok with k results
XrefExtract(a, k) ==
    /\ loops[a].pc = "xref_extract"
    /\ loops' = [loops EXCEPT
          ![a].pc = IF k = 0 THEN "cross_reference" ELSE "xref_store",
          ![a].xref_left = k,
          ![a].xref_failures = IF k = 0 THEN @ \cup {"extract"} ELSE @]
    /\ UNCHANGED <<runs, nextRunId, pipelines, response, scheduled, started, env, sched, spawned>>

\* mutant: a storage error of cross_reference is counted with the run's own
XrefStoreCounted(a, ok) ==
    /\ loops[a].pc = "xref_store"
    /\ loops' = [loops EXCEPT
          ![a].pc = IF loops[a].xref_left = 1 THEN "cross_reference" ELSE "xref_store",
          ![a].xref_left = @ - 1,
          ![a].store_errors = IF ok THEN @ ELSE @ + 1,
          ![a].xref_failures = IF ok THEN @ ELSE @ \cup {"store"}]
    /\ UNCHANGED <<runs, nextRunId, pipelines, response, scheduled, started, env, sched, spawned>>

\* cross_reference: one graph.store_extraction(r) of a lookup's results
\* returns; an error is logged
XrefStore(a, ok) ==
    /\ loops[a].pc = "xref_store"
    /\ loops' = [loops EXCEPT
          ![a].pc = IF loops[a].xref_left = 1 THEN "cross_reference" ELSE "xref_store",
          ![a].xref_left = @ - 1,
          ![a].xref_failures = IF ok THEN @ ELSE @ \cup {"store"}]
    /\ UNCHANGED <<runs, nextRunId, pipelines, response, scheduled, started, env, sched, spawned>>

\* cross_reference returns, its loops being over: it returns nothing and
\* touches no run record
LoopCrossReference(a) ==
    /\ loops[a].pc = "cross_reference"
    /\ loops[a].targets = <<>>
    /\ loops' = [loops EXCEPT ![a].pc = "finish", ![a].calls = Append(@, "cross_reference")]
    /\ UNCHANGED <<runs, nextRunId, pipelines, response, scheduled, started, env, sched, spawned>>

\* mutant: the storage errors are not reported
StoreErrorsOfNone(t) == None

\* the error of a run that stored its results: if store_errors > 0
\* { Some(format!(...)) } else { None }
StoreErrorsOf(t) ==
    IF t.store_errors > 0 THEN Some(StorageErrorsMessage(t.store_errors)) ELSE None

\* mark the run completed, with the storage errors if there were any
LoopFinish(a) ==
    /\ loops[a].pc = "finish"
    /\ runs' = update_run(runs, loops[a].run_id, "completed", loops[a].doc_count,
                          loops[a].entity_count, StoreErrorsOf(loops[a]))
    /\ loops' = [loops EXCEPT ![a].pc = "sleep"]
    /\ UNCHANGED <<nextRunId, pipelines, response, scheduled, started, env, sched, spawned>>

\* run_scheduler passes over a SCHEDULES entry: its required environment
\* variable is not set, or its agent is not in the registry
SchedulerSkip ==
    /\ sched \in DOMAIN SCHEDULES
    /\ ~Eligible(SCHEDULES[sched], env)
    /\ sched' = sched + 1
    /\ UNCHANGED <<runs, nextRunId, loops, pipelines, response, scheduled, started, env,
                   spawned>>

\* run_scheduler spawns agent_loop for a SCHEDULES entry
SchedulerSpawn ==
    /\ sched \in DOMAIN SCHEDULES
    /\ Eligible(SCHEDULES[sched], env)
    /\ loops' = [a \in DOMAIN loops \cup {SCHEDULES[sched].name} |->
                    IF a \in DOMAIN loops THEN loops[a] ELSE IdleTask]
    /\ spawned' = Append(spawned, SCHEDULES[sched].name)
    /\ sched' = sched + 1
    /\ UNCHANGED <<runs, nextRunId, pipelines, response, scheduled, started, env>>

\* tokio::time::sleep(interval) returns
LoopWake(a) ==
    /\ loops[a].pc = "sleep"
    /\ loops' = [loops EXCEPT ![a].pc = "start"]
    /\ UNCHANGED <<runs, nextRunId, pipelines, response, scheduled, started, env, sched, spawned>>

----------------------------------------------------------------------------
(* trigger_agent and run_agent_pipeline *)

\* POST /api/agents/trigger with a name that is not in the registry
TriggerUnknown(name) ==
    /\ name \notin Agents
    /\ started < MaxRuns
    /\ response' = [status |-> 404, run_id |-> 0]
    /\ started' = started + 1
    /\ UNCHANGED <<runs, nextRunId, loops, pipelines, scheduled, env, sched, spawned>>

\* POST /api/agents/trigger with a registered name: register the run, spawn
\* the pipeline task and answer 202
TriggerAgent(name) ==
    /\ name \in Agents
    /\ started < MaxRuns
    /\ runs' = PushTriggered(runs, NewRun(nextRunId, name))
    /\ pipelines' = pipelines \cup {[IdleTask EXCEPT !.pc = "collect", !.run_id = nextRunId]}
    /\ response' = [status |-> 202, run_id |-> nextRunId]
    /\ nextRunId' = nextRunId + 1
    /\ started' = started + 1
    /\ UNCHANGED <<loops, scheduled, env, sched, spawned>>

\* the spawned task ends: it records the pipeline's result in its run
PipelineEnds(t, result) ==
    /\ runs' = CompleteTriggered(runs, t.run_id, result)
    /\ pipelines' = pipelines \ {t}
    /\ UNCHANGED <<nextRunId, loops, response, scheduled, started, env, sched, spawned>>

PipelineStep(t, u) ==
    /\ pipelines' = (pipelines \ {t}) \cup {u}
    /\ UNCHANGED <<runs, nextRunId, loops, response, scheduled, started, env, sched, spawned>>

\* agent.collect() returns Err
PipelineCollectFails(t) ==
    /\ t.pc = "collect"
    /\ PipelineEnds(t, [ok |-> FALSE, error |-> PipelineErrorMessage("collect")])

\* agent.collect() returns Ok with n documents; with none the result is Ok((0, 0))
PipelineCollectOk(t, n) ==
    /\ t.pc = "collect"
    /\ IF AfterCollect(n) = "finish"
       THEN PipelineEnds(t, [ok |-> TRUE, docs |-> 0, entities |-> 0])
       ELSE PipelineStep(t, [t EXCEPT !.pc = AfterCollect(n), !.doc_count = n,
                                      !.calls = Append(@, "collect")])

\* extract_batch returns Err
PipelineExtractFails(t) ==
    /\ t.pc = "extract"
    /\ PipelineEnds(t, [ok |-> FALSE, error |-> PipelineErrorMessage("extract")])

\* extract_batch returns Ok with k results holding m entities in all; the
\* store loop of run_agent_pipeline has nothing after it
PipelineExtractOk(t, k, m) ==
    /\ t.pc = "extract"
    /\ PipelineStep(t, [t EXCEPT !.pc = "store", !.to_store = k, !.entity_count = m,
                                 !.results = ExtractionResults(vocab, k),
                                 !.calls = Append(@, "extract")])

\* mutant: a failed store_extraction is noted and the loop goes on, as in
\* agent_loop
PipelineStoreFailsGoesOn(t) ==
    /\ t.pc = "store"
    /\ IF t.to_store = 1
       THEN PipelineEnds(t, [ok |-> TRUE, docs |-> t.doc_count, entities |-> t.entity_count])
       ELSE PipelineStep(t, [t EXCEPT !.to_store = @ - 1, !.calls = Append(@, "store_failed")])

\* a store_extraction of the store loop returns Err: the pipeline returns it
PipelineStoreFails(t) ==
    /\ t.pc = "store"
    /\ PipelineEnds(t, [ok |-> FALSE, error |-> PipelineErrorMessage("store")])

\* a store_extraction of the store loop returns Ok; after the last one the
\* pipeline returns Ok((doc_count, entity_count))
PipelineStoreOk(t) ==
    /\ t.pc = "store"
    /\ IF t.to_store = 1
       THEN PipelineEnds(t, [ok |-> TRUE, docs |-> t.doc_count, entities |-> t.entity_count])
       ELSE PipelineStep(t, [t EXCEPT !.to_store = @ - 1, !.calls = Append(@, "store")])

----------------------------------------------------------------------------
(* parse_llm_response *)

\* the most entities and relationships an LLM response holds
MaxLlmEntities == 2

MaxLlmRelationships == 1

\* the sequences over S of length at most n
SeqsUpTo(S, n) == UNION { [1..k -> S] : k \in 0..n }

\* the names and aliases of the LLM's entities: "Ac" and "ac", and the alias
\* "AC", are equal ignoring case; "Bo" and the alias "bo" likewise
LlmNames == {<<"A", "c">>, <<"a", "c">>, <<"B", "o">>}

LlmAliasLists == { <<>>, << <<"A", "C">> >>, << <<"b", "o">> >> }

\* LlmEntity: name and aliases (type, properties and confidence are copied)
LlmEntities == [name : LlmNames, aliases : LlmAliasLists]

\* the names the LLM's relationships refer to: "aC", "BO", and "Zz", which
\* is no entity's name or alias
LlmEndpoints == {<<"a", "C">>, <<"B", "O">>, <<"Z", "z">>}

\* LlmRelationship: source and target
LlmRelationships == [source : LlmEndpoints, target : LlmEndpoints]

\* LlmExtractionOutput, as serde_json::from_str returns it
LlmOutputs ==
    [entities : SeqsUpTo(LlmEntities, MaxLlmEntities),
     relationships : SeqsUpTo(LlmRelationships, MaxLlmRelationships)]

\* str::to_lowercase on a string of the names' alphabet
to_lowercase(s) == [i \in DOMAIN s |-> LowerChar(s[i])]

\* HashMap::insert: a later value replaces an earlier one under the same key
Insert(m, k, v) == [x \in DOMAIN m \cup {k} |-> IF x = k THEN v ELSE m[x]]

\* HashMap::get
Get(m, k) == IF k \in DOMAIN m THEN Some(m[k]) ELSE None

\* for alias in &llm_entity.aliases { name_to_id.insert(alias.to_lowercase(), id) }
RECURSIVE InsertAliases(_, _, _)
InsertAliases(m, aliases, id) ==
    IF aliases = <<>> THEN m
    ELSE InsertAliases(Insert(m, to_lowercase(Head(aliases)), id), Tail(aliases), id)

\* the first loop of parse_llm_response over the entities from the i-th on:
\* the i-th entity is given the fresh id i, and its lowercased name and
\* aliases are inserted in name_to_id
RECURSIVE name_to_id(_, _, _)
name_to_id(llm_entities, i, m) ==
    IF i > Len(llm_entities) THEN m
    ELSE name_to_id(llm_entities, i + 1,
                    InsertAliases(Insert(m, to_lowercase(llm_entities[i].name), i),
                                  llm_entities[i].aliases, i))

\* the entities pushed: Entity { id, name, aliases, .. }
BuildEntities(llm_entities) ==
    [i \in DOMAIN llm_entities |->
        [id |-> i, name |-> llm_entities[i].name, aliases |-> llm_entities[i].aliases]]

\* mutant: the target is not asked for
SourceFound(source_id, target_id) == source_id.some

\* match (source_id, target_id): the arm (Some(&src), Some(&tgt))
BothFound(source_id, target_id) == source_id.some /\ target_id.some

\* the endpoint id a Relationship is built with
EndpointId(o) == IF o.some THEN o.val ELSE 0

\* the second loop of parse_llm_response over the relationships from the j-th
\* on; origin is the position of the LLM relationship a Relationship was built
\* from, kept for the properties
RECURSIVE BuildRelationships(_, _, _)
BuildRelationships(llm_relationships, j, index) ==
    IF j > Len(llm_relationships) THEN <<>>
    ELSE LET source_id == Get(index, to_lowercase(llm_relationships[j].source))
             target_id == Get(index, to_lowercase(llm_relationships[j].target))
             rest == BuildRelationships(llm_relationships, j + 1, index)
         IN IF BothFound(source_id, target_id)
            THEN << [source_entity_id |-> EndpointId(source_id),
                     target_entity_id |-> EndpointId(target_id),
                     origin |-> j] >> \o rest
            ELSE rest

\* parse_llm_response on a response that deserializes to output: Ok((entities,
\* relationships))
parse_llm_response(output) ==
    [entities |-> BuildEntities(output.entities),
     relationships |-> BuildRelationships(output.relationships, 1,
                                          name_to_id(output.entities, 1, <<>>))]

\* no response parsed yet
NotParsed == [entities |-> <<>>, relationships |-> <<>>, pending |-> TRUE]

\* extract() parses the LLM's response
Parse ==
    /\ "pending" \in DOMAIN parsed
    /\ parsed' = parse_llm_response(llm)
    /\ UNCHANGED llm

\* no LLM response at hand
ParseIdle ==
    /\ llm = [entities |-> <<>>, relationships |-> <<>>]
    /\ parsed = NotParsed

ParseInit ==
    /\ llm \in LlmOutputs
    /\ parsed = NotParsed

----------------------------------------------------------------------------
(* extract_batch: one task per document, joined in completion order *)

\* documents of a batch
MaxDocuments == 3

\* the batches: documents 1..n, a document being its source_id
DocumentBatches == {[i \in 1..n |-> i] : n \in 0..MaxDocuments}

\* how a spawned task can end: extract returns Ok or Err, or the task panics
TaskEnds == {"ok", "err", "panic"}

\* what join_next yields for a task that ended: Ok((i, extract's result)),
\* or Err(JoinError) for a task that panicked
JoinResult(i, doc, end) ==
    IF end = "panic"
    THEN [ok |-> FALSE]
    ELSE [ok |-> TRUE, i |-> i,
          result |-> IF end = "ok"
                     THEN [ok |-> TRUE, extraction |-> [raw_source |-> doc]]
                     ELSE [ok |-> FALSE]]

\* the spawn loop has not started
BatchIdle ==
    /\ documents = <<>>
    /\ join_set = <<>>
    /\ extraction_results = <<>>
    /\ errors = <<>>
    /\ batch = [pc |-> "idle"]

BatchInit ==
    /\ documents \in DocumentBatches
    /\ join_set = <<>>
    /\ extraction_results = <<>>
    /\ errors = <<>>
    /\ batch = [pc |-> "spawn"]

\* join_set.spawn for the next document; the loop ends after the last one
BatchSpawn ==
    /\ batch.pc = "spawn"
    /\ Len(join_set) < Len(documents)
    /\ join_set' = Append(join_set, [state |-> "running"])
    /\ UNCHANGED <<documents, extraction_results, errors, batch>>

BatchSpawned ==
    /\ batch.pc = "spawn"
    /\ Len(join_set) = Len(documents)
    /\ batch' = [pc |-> "join"]
    /\ UNCHANGED <<documents, join_set, extraction_results, errors>>

\* the task of document i ends, whatever the spawn loop and the other
\* tasks are doing
TaskEnd(i, end) ==
    /\ i \in DOMAIN join_set
    /\ join_set[i].state = "running"
    /\ join_set' = [join_set EXCEPT ![i] = [state |-> "ended", end |-> end]]
    /\ UNCHANGED <<documents, extraction_results, errors, batch>>

\* a panicked task leaves no message
PanicUncounted(rs, es, jr) ==
    IF jr.ok /\ jr.result.ok
    THEN <<Append(rs, jr.result.extraction), es>>
    ELSE IF jr.ok
    THEN <<rs, Append(es, [document |-> Some(jr.i)])>>
    ELSE <<rs, es>>

\* the three arms of the match on join_next's result
MatchJoinResult(rs, es, jr) ==
    IF jr.ok /\ jr.result.ok
    THEN <<Append(rs, jr.result.extraction), es>>
    ELSE IF jr.ok
    THEN <<rs, Append(es, [document |-> Some(jr.i)])>>
    ELSE <<rs, Append(es, [document |-> None])>>

\* join_next yields a task that has ended and removes it from the set
JoinNext(i) ==
    /\ batch.pc = "join"
    /\ i \in DOMAIN join_set
    /\ join_set[i].state = "ended"
    /\ \E m \in {MatchJoinResult(extraction_results, errors,
                                 JoinResult(i, documents[i], join_set[i].end))} :
          /\ extraction_results' = m[1]
          /\ errors' = m[2]
    /\ join_set' = [join_set EXCEPT ![i].state = "joined"]
    /\ UNCHANGED <<documents, batch>>

\* what extract_batch returns once the set is empty
BatchResult(rs, es) ==
    IF rs = <<>> /\ es # <<>>
    THEN [ok |-> FALSE, error |-> [kind |-> "Extraction", errors |-> es]]
    ELSE [ok |-> TRUE, results |-> rs]

\* join_next yields None: no task is left in the set
BatchReturn ==
    /\ batch.pc = "join"
    /\ \A i \in DOMAIN join_set : join_set[i].state = "joined"
    /\ batch' = [pc |-> "returned", ret |-> BatchResult(extraction_results, errors)]
    /\ UNCHANGED <<documents, join_set, extraction_results, errors>>

BatchNext ==
    \/ BatchSpawn
    \/ BatchSpawned
    \/ \E i \in DOMAIN join_set : \E end \in TaskEnds : TaskEnd(i, end)
    \/ \E i \in DOMAIN join_set : JoinNext(i)
    \/ BatchReturn

----------------------------------------------------------------------------
(* Text of the LLM's responses to the reasoning engine *)

\* A text is a sequence of tokens: a marker of the interpretation format, a
\* fence, a word, a number, a comma, a blank or a line break.  The three
\* backquotes of a fence are written FENCE.

Markers == {"ANSWER:", "CONFIDENCE:", "ENTITIES:", "SOURCES:"}

\* char::is_whitespace, on tokens
Whitespace == {" ", "\n"}

\* the f64 a number token denotes, in tenths; NaN is no number
NaN == [nan |-> TRUE]

F64(tenths) == [nan |-> FALSE, tenths |-> tenths]

NumberTokens == {"-0.3", "0.7", "1.5", "NaN"}

\* <f64 as FromStr>::from_str on a number token
F64FromToken(t) ==
    CASE t = "-0.3" -> F64(-3)
      [] t = "0.7" -> F64(7)
      [] t = "1.5" -> F64(15)
      [] t = "NaN" -> NaN

\* <f64 as Display>::fmt
F64ToToken(c) == CHOOSE t \in NumberTokens : F64FromToken(t) = c

\* str::trim_start, str::trim_end, str::trim
RECURSIVE trim_start(_)
trim_start(s) ==
    IF s # <<>> /\ Head(s) \in Whitespace THEN trim_start(Tail(s)) ELSE s

RECURSIVE trim_end(_)
trim_end(s) ==
    IF s # <<>> /\ s[Len(s)] \in Whitespace THEN trim_end(SubSeq(s, 1, Len(s) - 1)) ELSE s

trim(s) == trim_end(trim_start(s))

\* str::split(sep): the pieces between the separators, in order
RECURSIVE SplitFrom(_, _, _, _)
SplitFrom(s, sep, piece, pieces) ==
    IF s = <<>> THEN Append(pieces, piece)
    ELSE IF Head(s) = sep THEN SplitFrom(Tail(s), sep, <<>>, Append(pieces, piece))
    ELSE SplitFrom(Tail(s), sep, Append(piece, Head(s)), pieces)

split(s, sep) == SplitFrom(s, sep, <<>>, <<>>)

\* str::lines: the pieces between the line breaks, a final line break
\* ending the last line rather than starting an empty one
lines(s) ==
    LET pieces == split(s, "\n")
    IN  IF pieces[Len(pieces)] = <<>> THEN SubSeq(pieces, 1, Len(pieces) - 1) ELSE pieces

\* [String]::join(sep)
RECURSIVE join(_, _)
join(strs, sep) ==
    IF strs = <<>> THEN <<>>
    ELSE IF Len(strs) = 1 THEN strs[1]
    ELSE strs[1] \o sep \o join(Tail(strs), sep)

\* str::strip_prefix, for a prefix of one token
strip_prefix(s, prefix) ==
    IF s # <<>> /\ Head(s) = prefix THEN Some(Tail(s)) ELSE None

\* str::to_uppercase on the words of the alphabet
UpperToken(t) ==
    CASE t = "none" -> "NONE"
      [] t = "x" -> "X"
      [] t = "y" -> "Y"
      [] t = "match" -> "MATCH"
      [] t = "return" -> "RETURN"
      [] t = "NaN" -> "NAN"
      [] OTHER -> t

to_uppercase(s) == [i \in DOMAIN s |-> UpperToken(s[i])]

\* str::parse::<f64>: a text of one number token and nothing else
parse_f64(s) ==
    IF Len(s) = 1 /\ s[1] \in NumberTokens
    THEN [ok |-> TRUE, val |-> F64FromToken(s[1])]
    ELSE [ok |-> FALSE]

\* f64::clamp(0.0, 1.0): NaN stays NaN
clamp01(c) ==
    IF c.nan THEN c
    ELSE IF c.tenths < 0 THEN F64(0)
    ELSE IF c.tenths > 10 THEN F64(10)
    ELSE c

\* Iterator::filter(|s| !s.is_empty())
RECURSIVE NonEmpty(_)
NonEmpty(strs) ==
    IF strs = <<>> THEN <<>>
    ELSE IF Head(strs) = <<>> THEN NonEmpty(Tail(strs))
    ELSE <<Head(strs)>> \o NonEmpty(Tail(strs))

\* v.split(',').map(|s| s.trim().to_string()).filter(|s| !s.is_empty()).collect()
CommaList(v) ==
    LET pieces == split(v, ",")
    IN  NonEmpty([i \in DOMAIN pieces |-> trim(pieces[i])])

\* the state of parse_interpretation's loop
ParseStart ==
    [answer_lines |-> <<>>, confidence |-> F64(5), entities |-> <<>>, sources |-> <<>>,
     current_section |-> None]

\* the branch of a CONFIDENCE: line
ConfidenceLine(st, rest) ==
    LET c == parse_f64(trim(rest))
    IN  [st EXCEPT !.current_section = Some("confidence"),
                   !.confidence = IF c.ok THEN clamp01(c.val) ELSE @]

\* the branch of an ENTITIES: or SOURCES: line
ListLine(st, rest, section) ==
    LET v == trim(rest)
    IN  [st EXCEPT !.current_section = Some(section),
                   ![section] = IF v # <<>> /\ to_uppercase(v) # <<"NONE">>
                                THEN CommaList(v) ELSE @]

\* one turn of the loop over the lines of the response
ParseLine(st, line) ==
    LET trimmed == trim(line)
    IN  IF strip_prefix(trimmed, "ANSWER:").some
        THEN LET v == trim(strip_prefix(trimmed, "ANSWER:").val)
             IN  [st EXCEPT !.current_section = Some("answer"),
                            !.answer_lines = IF v # <<>> THEN Append(@, v) ELSE @]
        ELSE IF strip_prefix(trimmed, "CONFIDENCE:").some
        THEN ConfidenceLine(st, strip_prefix(trimmed, "CONFIDENCE:").val)
        ELSE IF strip_prefix(trimmed, "ENTITIES:").some
        THEN ListLine(st, strip_prefix(trimmed, "ENTITIES:").val, "entities")
        ELSE IF strip_prefix(trimmed, "SOURCES:").some
        THEN ListLine(st, strip_prefix(trimmed, "SOURCES:").val, "sources")
        ELSE IF st.current_section = Some("answer")
        THEN [st EXCEPT !.answer_lines = Append(@, trimmed)]
        ELSE st

RECURSIVE ParseLines(_, _)
ParseLines(st, ls) ==
    IF ls = <<>> THEN st ELSE ParseLines(ParseLine(st, Head(ls)), Tail(ls))

\* parse_interpretation: (answer, confidence, entities, sources)
parse_interpretation(text) ==
    LET st == ParseLines(ParseStart, lines(text))
        answer == trim(join(st.answer_lines, <<"\n">>))
    IN  [answer |-> IF answer = <<>> THEN trim(text) ELSE answer,
         confidence |-> st.confidence,
         entities |-> st.entities,
         sources |-> st.sources]

----------------------------------------------------------------------------
(* The reasoning engine: LlmReasoningEngine::query *)

\* const MAX_REASONING_ITERATIONS: usize = 5
MAX_REASONING_ITERATIONS == 5

\* blocks of a response to a query-generation prompt
MaxBlocks == 2

FenceOpeners == {"FENCEcypher", "FENCECYPHER"}

Keywords == {"MATCH", "OPTIONAL", "WITH", "RETURN", "WHERE", "ORDER", "LIMIT", "CALL"}

\* the state of extract_cypher_queries' first loop
ExtractStart == [queries |-> <<>>, in_block |-> FALSE, current |-> <<>>]

\* one turn of the loop over the fenced blocks
ExtractLine(st, line) ==
    LET trimmed == trim(line)
    IN  IF trimmed # <<>> /\ Head(trimmed) \in FenceOpeners
        THEN [st EXCEPT !.in_block = TRUE, !.current = <<>>]
        ELSE IF trimmed = <<"FENCE">> /\ st.in_block
        THEN [queries |-> IF trim(st.current) # <<>>
                          THEN Append(st.queries, trim(st.current))
                          ELSE st.queries,
              in_block |-> FALSE,
              current |-> <<>>]
        ELSE IF st.in_block
        THEN [st EXCEPT !.current = @ \o line \o <<"\n">>]
        ELSE st

RECURSIVE ExtractLines(_, _)
ExtractLines(st, ls) ==
    IF ls = <<>> THEN st ELSE ExtractLines(ExtractLine(st, Head(ls)), Tail(ls))

\* the fallback: the lines that begin with a keyword, trimmed, one per line
RECURSIVE RawStatements(_)
RawStatements(ls) ==
    IF ls = <<>> THEN <<>>
    ELSE LET trimmed == trim(Head(ls))
         IN  IF trimmed # <<>> /\ UpperToken(Head(trimmed)) \in Keywords
             THEN trimmed \o <<"\n">> \o RawStatements(Tail(ls))
             ELSE RawStatements(Tail(ls))

extract_cypher_queries(text) ==
    LET queries == ExtractLines(ExtractStart, lines(text)).queries
        q == trim(RawStatements(lines(text)))
    IN  IF queries # <<>> THEN queries
        ELSE IF q # <<>> THEN <<q>>
        ELSE <<>>

\* what the LLM may put in a response to a query-generation prompt: prose,
\* a fenced query, an empty fenced block, a fence left open, a bare statement
ResponseBlocks ==
    { <<"x">>,
      <<"FENCEcypher", "\n", "MATCH", " ", "x", "\n", "FENCE">>,
      <<"FENCECYPHER", "\n", "MATCH", " ", "y", "\n", "FENCE">>,
      <<"FENCEcypher", "\n", "FENCE">>,
      <<"FENCEcypher", "\n", "RETURN", " ", "x">>,
      <<" ", "match", " ", "y">> }

\* the texts call_llm returns Ok with: never the empty text
LlmResponses ==
    {join(blocks, <<"\n">>) : blocks \in SeqsUpTo(ResponseBlocks, MaxBlocks) \ {<<>>}}

\* extract_cypher_queries, tabulated over these texts
ExtractedQueries == [t \in LlmResponses |-> extract_cypher_queries(t)]

\* call_llm: Ok(text), or Err(ArgusError::Reasoning) for a transport error,
\* a non-2xx status, an unreadable body or an empty text
LlmError == [ok |-> FALSE, error |-> "Reasoning", message |-> "call_llm"]

LlmOk(text) == [ok |-> TRUE, text |-> text]

\* serde_json::Value, as Neo4jGraphStore::execute_cypher builds it: an array
\* of rows
JsonArray(n) == [json |-> "array", rows |-> n]

\* execute_cypher: Ok(Value::Array(rows)), or Err(ArgusError::Graph)
QueryOutcomes ==
    {[ok |-> TRUE, val |-> JsonArray(n)] : n \in {0, 1}} \cup {[ok |-> FALSE, err |-> "Graph"]}

\* val.is_null() || val == &serde_json::Value::Array(vec![])
EmptyOrFailed(r) == ~r.ok \/ r.val.json = "null" \/ r.val = JsonArray(0)

all_empty_or_failed(query_results) ==
    \A i \in DOMAIN query_results : EmptyOrFailed(query_results[i].result)

\* the block a query adds to steps_summary: its number, its text, and the
\* result's JSON or "Error: {e}"
SummaryBlock(label, i, qr) ==
    [label |-> label, n |-> i, cypher |-> qr.cypher,
     result_str |-> IF qr.result.ok THEN [json |-> qr.result.val]
                    ELSE [error |-> qr.result.err]]

Summary(label, results) == [i \in DOMAIN results |-> SummaryBlock(label, i, results[i])]

\* the ReasoningStep pushed for an executed query
ExecutedStep(label, i, qr) ==
    [description |-> label, n |-> i, cypher |-> Some(qr.cypher), failed |-> ~qr.result.ok]

ExecutedSteps(label, results) == [i \in DOMAIN results |-> ExecutedStep(label, i, results[i])]

\* responses to the interpretation prompt
Interpretations ==
    { <<"ANSWER:", " ", "x", "\n", "CONFIDENCE:", " ", "0.7", "\n",
        "ENTITIES:", " ", "x", ",", " ", "y", "\n", "SOURCES:", " ", "NONE">>,
      <<"x", " ", "y">> }

\* search_entities(name, 1): Ok with the top match or with nothing, or Err
SearchOutcomes == {"found", "nothing", "err"}

\* ArgusError::Reasoning("LLM did not produce any Cypher queries ...")
NoQueriesError == [ok |-> FALSE, error |-> "Reasoning", message |-> "no queries"]

\* the locals of query() at its entry
EngineStart ==
    [pc |-> "generate",
     steps |-> <<>>,
     cypher_queries |-> <<>>,
     query_results |-> <<>>,
     final_steps_summary |-> <<>>,
     iteration |-> 0,
     refined_queries |-> <<>>,
     refined_results |-> <<>>,
     interpretation |-> None,
     names_left |-> <<>>,
     entities_referenced |-> <<>>,
     ret |-> None]

\* no question asked
EngineIdle ==
    /\ engine = [pc |-> "idle"]
    /\ llm_calls = <<>>
    /\ graph_calls = <<>>

\* query() has been called
EngineInit ==
    /\ engine = EngineStart
    /\ llm_calls = <<>>
    /\ graph_calls = <<>>

\* a call_llm call: the prompt's kind and evidence, and the queries found in
\* the text it returned
LlmCall(prompt, summary, r, queries) ==
    [prompt |-> prompt, summary |-> summary, ok |-> r.ok, queries |-> queries]

\* if cypher_queries.is_empty() never holds
NoQueriesNever(cypher_queries) == FALSE

\* if cypher_queries.is_empty()
NoQueries(cypher_queries) == cypher_queries = <<>>

\* refinement is never tried
AfterPhase2NeverRefines(query_results) == "interpret"

\* where query() goes once phase 2 is over
AfterPhase2(query_results) ==
    IF all_empty_or_failed(query_results) /\ 0 < MAX_REASONING_ITERATIONS
    THEN "refine" ELSE "interpret"

\* phase 1: the call for queries returns; an Err ends query(), and so does a
\* response without query
QueryGenerate(r) ==
    /\ engine.pc = "generate"
    /\ LET cypher_queries == IF r.ok THEN ExtractedQueries[r.text] ELSE <<>>
           step == [description |-> "generated", n |-> Len(cypher_queries),
                    cypher |-> IF cypher_queries = <<>> THEN None
                               ELSE Some(cypher_queries),
                    failed |-> FALSE]
       IN  /\ llm_calls' = Append(llm_calls, LlmCall("generate", <<>>, r, cypher_queries))
           /\ IF ~r.ok
              THEN engine' = [engine EXCEPT !.pc = "returned", !.ret = Some(r)]
              ELSE IF NoQueries(cypher_queries)
              THEN engine' = [engine EXCEPT !.pc = "returned", !.steps = <<step>>,
                                            !.ret = Some(NoQueriesError)]
              ELSE engine' = [engine EXCEPT !.pc = "execute", !.steps = <<step>>,
                                            !.cypher_queries = cypher_queries]
    /\ UNCHANGED graph_calls

\* a failed query ends execute_queries
ExecutedAllOrFailed(results, queries) ==
    Len(results) = Len(queries) \/ ~results[Len(results)].result.ok

\* execute_queries has run every query
ExecutedAll(results, queries) == Len(results) = Len(queries)

\* phase 2: execute_queries runs the next query; after the last one the
\* summary and the steps are built
QueryExecute(o) ==
    /\ engine.pc = "execute"
    /\ LET cypher == engine.cypher_queries[Len(engine.query_results) + 1]
           results == Append(engine.query_results, [cypher |-> cypher, result |-> o])
       IN  /\ graph_calls' = Append(graph_calls, cypher)
           /\ IF ExecutedAll(results, engine.cypher_queries)
              THEN engine' = [engine EXCEPT
                                !.pc = AfterPhase2(results),
                                !.steps = @ \o ExecutedSteps("executed", results),
                                !.query_results = results,
                                !.final_steps_summary = Summary("Query", results)]
              ELSE engine' = [engine EXCEPT !.query_results = results]
    /\ UNCHANGED llm_calls

\* the Err of the refinement call ends query(), as with `?`
AfterRefineFailsOnErr(r, refined_queries) ==
    IF ~r.ok THEN "returned"
    ELSE IF refined_queries # <<>> THEN "execute_refined" ELSE "interpret"

\* if let Ok(refinement_resp) = call_llm(..) { if !refined_queries.is_empty()
\* {..} }: where query() goes once the refinement call has returned
AfterRefine(r, refined_queries) ==
    IF r.ok /\ refined_queries # <<>> THEN "execute_refined" ELSE "interpret"

\* phase 3: the call for broader queries returns; an Err or a response
\* without query leads to phase 4
QueryRefine(r) ==
    /\ engine.pc = "refine"
    /\ LET refined_queries == IF r.ok THEN ExtractedQueries[r.text] ELSE <<>>
           step == [description |-> "refined", n |-> Len(refined_queries),
                    cypher |-> Some(refined_queries), failed |-> FALSE]
       IN  /\ llm_calls' = Append(llm_calls,
                                  LlmCall("refine", engine.final_steps_summary, r, refined_queries))
           /\ IF AfterRefine(r, refined_queries) # "execute_refined"
              THEN engine' = [engine EXCEPT !.pc = AfterRefine(r, refined_queries)]
              ELSE engine' = [engine EXCEPT !.pc = "execute_refined",
                                            !.steps = Append(@, step),
                                            !.refined_queries = refined_queries]
    /\ UNCHANGED graph_calls

\* phase 3: execute_queries runs the next refined query; after the last one
\* the outcomes are appended to the summary
QueryExecuteRefined(o) ==
    /\ engine.pc = "execute_refined"
    /\ LET cypher == engine.refined_queries[Len(engine.refined_results) + 1]
           results == Append(engine.refined_results, [cypher |-> cypher, result |-> o])
       IN  /\ graph_calls' = Append(graph_calls, cypher)
           /\ IF Len(results) < Len(engine.refined_queries)
              THEN engine' = [engine EXCEPT !.refined_results = results]
              ELSE engine' = [engine EXCEPT
                                !.pc = "interpret",
                                !.steps = @ \o ExecutedSteps("executed_refined", results),
                                !.refined_results = results,
                                !.final_steps_summary = @ \o Summary("Refined Query", results),
                                !.iteration = @ + 1]
    /\ UNCHANGED llm_calls

\* phase 4: the call for the interpretation returns; an Err ends query()
QueryInterpret(r) ==
    /\ engine.pc = "interpret"
    /\ llm_calls' = Append(llm_calls, LlmCall("interpret", engine.final_steps_summary, r, <<>>))
    /\ IF ~r.ok
       THEN engine' = [engine EXCEPT !.pc = "returned", !.ret = Some(r)]
       ELSE LET i == parse_interpretation(r.text)
                step == [description |-> "interpreted", n |-> Len(i.entities),
                         cypher |-> None, failed |-> FALSE]
            IN  engine' = [engine EXCEPT !.pc = "resolve",
                                         !.steps = Append(@, step),
                                         !.interpretation = Some(i),
                                         !.names_left = i.entities]
    /\ UNCHANGED graph_calls

\* phase 5: resolve_entities looks the next name up and keeps the match
QueryResolve(found) ==
    /\ engine.pc = "resolve"
    /\ engine.names_left # <<>>
    /\ engine' = [engine EXCEPT
                    !.names_left = Tail(@),
                    !.entities_referenced =
                        IF found = "found" THEN Append(@, Head(engine.names_left)) ELSE @]
    /\ UNCHANGED <<llm_calls, graph_calls>>

\* query() returns Ok(ReasoningResponse)
QueryAnswer ==
    /\ engine.pc = "resolve"
    /\ engine.names_left = <<>>
    /\ engine' = [engine EXCEPT
                    !.pc = "returned",
                    !.ret = Some([ok |-> TRUE,
                                  answer |-> engine.interpretation.val.answer,
                                  confidence |-> engine.interpretation.val.confidence,
                                  steps |-> engine.steps,
                                  entities_referenced |-> engine.entities_referenced,
                                  sources |-> engine.interpretation.val.sources])]
    /\ UNCHANGED <<llm_calls, graph_calls>>

\* what call_llm may return to a query-generation prompt
LlmReplies == {LlmError} \cup {LlmOk(t) : t \in LlmResponses}

\* what call_llm may return to the interpretation prompt
InterpretationReplies == {LlmError} \cup {LlmOk(t) : t \in Interpretations}

\* the call query() is waiting for
Awaiting(pc) == engine.pc = pc

EngineNext ==
    \/ Awaiting("generate") /\ \E r \in LlmReplies : QueryGenerate(r)
    \/ \E o \in QueryOutcomes : QueryExecute(o)
    \/ Awaiting("refine") /\ \E r \in LlmReplies : QueryRefine(r)
    \/ \E o \in QueryOutcomes : QueryExecuteRefined(o)
    \/ \E r \in InterpretationReplies : QueryInterpret(r)
    \/ \E found \in SearchOutcomes : QueryResolve(found)
    \/ QueryAnswer

----------------------------------------------------------------------------
(* parse_interpretation on the LLM's interpretation responses *)

\* lines of a response to the interpretation prompt
MaxResponseLines == 3

\* names in a list the emitter writes
MaxNames == 1

\* lines the LLM may write
InterpretationLines ==
    { <<"ANSWER:", " ", "x">>, <<"ANSWER:">>, <<" ", "y">>, <<>>,
      <<"CONFIDENCE:", " ", "x">>,
      <<"ENTITIES:", " ", "x", ",", "y">>, <<"ENTITIES:", " ", "none">>,
      <<"SOURCES:", " ", "NONE">>, <<"SOURCES:", " ", "x">> }
    \cup {<<"CONFIDENCE:", " ", t>> : t \in NumberTokens}

\* the responses of up to MaxResponseLines such lines
FreeInterpretations ==
    {join(ls, <<"\n">>) : ls \in SeqsUpTo(InterpretationLines, MaxResponseLines)}

\* answer texts, of one or several lines
AnswerTexts ==
    { <<"x">>,
      <<"x", " ", "y", "\n", "y">>,
      <<"x", "\n", "\n", "y">>,
      <<"x", "\n", " ", " ", "y">>,
      <<"x", "\n", "SOURCES:", " ", "y">>,
      <<>> }

\* confidences: numbers inside and outside [0,1]
ConfidenceValues == {F64(-3), F64(7), F64(15)}

\* entity names and source identifiers
NameTexts == {<<"x">>, <<"x", " ", "y">>, <<"x", ",", " ", "y">>, <<"none">>}

\* what an emitter is given
InterpretationFields ==
    [answer : AnswerTexts,
     confidence : ConfidenceValues,
     entities : SeqsUpTo(NameTexts, MaxNames),
     sources : SeqsUpTo(NameTexts \ {<<"x", " ", "y">>}, MaxNames)]

\* a list in the format of the prompt: comma-separated, or NONE
EmitList(names) == IF names = <<>> THEN <<"NONE">> ELSE join(names, <<",", " ">>)

\* the four-marker format the interpretation prompt prescribes
Emit(f) ==
    join(<< <<"ANSWER:", " ">> \o f.answer,
            <<"CONFIDENCE:", " ", F64ToToken(f.confidence)>>,
            <<"ENTITIES:", " ">> \o EmitList(f.entities),
            <<"SOURCES:", " ">> \o EmitList(f.sources) >>,
         <<"\n">>)

NotInterpreted == [pending |-> TRUE]

\* no interpretation at hand
InterpretIdle ==
    /\ fields = None
    /\ interpretation = <<>>
    /\ interpreted = NotInterpreted

\* the interpretation call has returned a text: one written freely, or the
\* canonical form of some fields
InterpretInit ==
    /\ fields \in {None} \cup {Some(f) : f \in InterpretationFields}
    /\ interpretation \in IF fields.some THEN {Emit(fields.val)} ELSE FreeInterpretations
    /\ interpreted = NotInterpreted

\* query() parses the text
ParseInterpretation ==
    /\ interpreted = NotInterpreted
    /\ interpreted' = parse_interpretation(interpretation)
    /\ UNCHANGED <<fields, interpretation>>

----------------------------------------------------------------------------
(* The agents: collect and status *)

\* collect calls begun over a behaviour
MaxCollects == 2

\* agent_registry: the six agents
Collectors == {"gdelt", "opencorporates", "ais", "adsb", "opensanctions", "eu_transparency"}

\* the stages of an agent's collect that can fail, in order
CollectStages(agent) ==
    CASE agent = "ais" -> <<"credential", "transport", "status", "body", "parse">>
      [] agent = "adsb" -> <<"transport", "status", "parse">>
      [] agent = "opencorporates" -> <<"transport", "status", "parse">>
      [] agent = "eu_transparency" -> <<"transport", "status", "body", "parse">>
      [] agent = "opensanctions" -> <<"transport", "status", "parse">>
      [] agent = "gdelt" -> <<"transport", "status", "body", "parse">>

\* the failures on which collect writes last_error before it returns the
\* error: all of them in gdelt (the match on collect_inner's result) and in
\* opensanctions (the match on fetch_page's result); elsewhere only those of
\* the branches that take the write lock, the others leaving through `?`
SetsLastError(agent, stage) ==
    \/ agent \in {"gdelt", "opensanctions"}
    \/ stage = "status"
    \/ agent = "ais" /\ stage = "credential"

\* the state a new agent holds
AgentStateDefault == [last_run |-> None, documents_collected |-> 0, last_error |-> None]

\* status(): a snapshot of the agent's state
status(states, agent) ==
    [name |-> agent,
     enabled |-> TRUE,
     last_run |-> states[agent].last_run,
     documents_collected |-> states[agent].documents_collected,
     error |-> states[agent].last_error]

\* the numbers of documents a collect returns
CollectCounts == {0, 1, 2}

\* the count is replaced by the number of documents of the call
AddDocumentsOverwrites(documents_collected, doc_count) == doc_count

\* state.documents_collected += doc_count under the write lock;
\* documents_collected.fetch_add(count) in gdelt
AddDocuments(documents_collected, doc_count) == documents_collected + doc_count

\* no agent has been asked to collect
AgentsInit ==
    /\ agent_state = [a \in Collectors |-> AgentStateDefault]
    /\ collects = <<>>

\* a scheduler loop, a trigger or cross_reference's caller calls collect
CollectStart(agent) ==
    /\ Len(collects) < MaxCollects
    /\ collects' = Append(collects, [agent |-> agent, pc |-> "running"])
    /\ UNCHANGED agent_state

\* the call fails at a stage and returns the error
CollectFails(c, stage) ==
    /\ collects[c].pc = "running"
    /\ stage \in Range(CollectStages(collects[c].agent))
    /\ agent_state' =
          IF SetsLastError(collects[c].agent, stage)
          THEN [agent_state EXCEPT ![collects[c].agent].last_run = Some(Now),
                                   ![collects[c].agent].last_error = Some(stage)]
          ELSE agent_state
    /\ collects' = [collects EXCEPT ![c] =
                      [agent |-> @.agent, pc |-> "returned", ok |-> FALSE, stage |-> stage]]

\* the call of an agent whose state is behind one lock succeeds: it takes
\* the write lock, commits and returns the documents
CollectOk(c, doc_count) ==
    /\ collects[c].pc = "running"
    /\ collects[c].agent # "gdelt"
    /\ agent_state' =
          [agent_state EXCEPT
              ![collects[c].agent] =
                  [last_run |-> Some(Now),
                   documents_collected |-> AddDocuments(@.documents_collected, doc_count),
                   last_error |-> None]]
    /\ collects' = [collects EXCEPT ![c] =
                      [agent |-> @.agent, pc |-> "returned", ok |-> TRUE, docs |-> doc_count]]

\* collect_inner of gdelt succeeds: last_run is written and the counter added to
GdeltCounts(c, doc_count) ==
    /\ collects[c].pc = "running"
    /\ collects[c].agent = "gdelt"
    /\ agent_state' =
          [agent_state EXCEPT
              !["gdelt"].last_run = Some(Now),
              !["gdelt"].documents_collected = AddDocuments(@, doc_count)]
    /\ collects' = [collects EXCEPT ![c] =
                      [agent |-> @.agent, pc |-> "counted", ok |-> TRUE, docs |-> doc_count]]

\* gdelt then takes the lock of last_error, clears it and returns the documents
GdeltReturns(c) ==
    /\ collects[c].pc = "counted"
    /\ agent_state' = [agent_state EXCEPT !["gdelt"].last_error = None]
    /\ collects' = [collects EXCEPT ![c].pc = "returned"]

AgentsNext ==
    \/ \E agent \in Collectors : CollectStart(agent)
    \/ \E c \in DOMAIN collects :
          \E stage \in {"credential", "transport", "status", "body", "parse"} :
             CollectFails(c, stage)
    \/ \E c \in DOMAIN collects : \E n \in CollectCounts : CollectOk(c, n)
    \/ \E c \in DOMAIN collects : \E n \in CollectCounts : GdeltCounts(c, n)
    \/ \E c \in DOMAIN collects : GdeltReturns(c)

----------------------------------------------------------------------------
(* OpenSanctionsAgent::collect: the pagination loop *)

\* const PAGE_LIMIT: u32 = 100
PAGE_LIMIT == 100

\* `if offset > 10_000`: the safety limit of the pagination
SAFETY_OFFSET == 10000

\* page.results.len() of the pages the source serves: a page short of the
\* limit (an empty one) and a full page
PageSizes == {0, PAGE_LIMIT}

\* page.total of the pages the source serves: absent, a total the offsets
\* reach and a total beyond the safety limit
PageTotals == {None, Some(300), Some(20000)}

\* the text of the error fetch_page returns
FetchError == "HTTP request failed"

\* the state a new sanctions agent holds
SanctionsStateDefault ==
    [enabled |-> TRUE, last_run |-> None, documents_collected |-> 0, last_error |-> None]

\* collect has not been called
PagingIdle ==
    [pc |-> "idle", call |-> 0, offset |-> 0, all_documents |-> 0, pages |-> 0,
     page |-> None, ret |-> None]

PagesIdle == sanctions_state = SanctionsStateDefault /\ paging = PagingIdle

\* `if (result_count as u32) < PAGE_LIMIT { break; }`; the u32 values of the
\* loop stay below 2^32, offset being at most 10,100 and a page being short
\* of 2^32 records, so that the casts and sums are those of the integers
ShortPage(result_count) == result_count < PAGE_LIMIT

\* `if let Some(total) = page.total { if (offset + result_count as u32) as u64
\* >= total { break; } }`
TotalReached(offset, result_count, total) ==
    total.some /\ offset + result_count >= total.val

\* mutant: the safety limit is never tested
PastSafetyLimitNever(offset) == FALSE

\* `offset += PAGE_LIMIT; if offset > 10_000 { break; }`, offset being the
\* offset of the page just gathered
PastSafetyLimit(offset) == offset + PAGE_LIMIT > SAFETY_OFFSET

\* whether the loop is left after the page fetched at offset
LoopEnds(offset, result_count, total) ==
    \/ ShortPage(result_count)
    \/ TotalReached(offset, result_count, total)
    \/ PastSafetyLimit(offset)

\* collect is called: the agent is enabled, all_documents is empty and offset 0
SanctionsCollect ==
    /\ paging.pc \in {"idle", "returned"}
    /\ paging.call < MaxCollects
    /\ sanctions_state.enabled
    /\ paging' = [pc |-> "fetch", call |-> paging.call + 1, offset |-> 0,
                  all_documents |-> 0, pages |-> 0, page |-> None, ret |-> None]
    /\ UNCHANGED sanctions_state

\* mutant: a failed fetch ends the loop and the pages gathered are returned
FetchPageErrKeepsPages ==
    /\ paging.pc = "fetch"
    /\ sanctions_state' = [sanctions_state EXCEPT
          !.last_run = Some(paging.call),
          !.documents_collected = AddDocuments(@, paging.all_documents),
          !.last_error = Some(FetchError)]
    /\ paging' = [paging EXCEPT !.pc = "returned", !.page = None,
                                !.ret = [ok |-> TRUE, documents |-> paging.all_documents]]

\* fetch_page(offset, PAGE_LIMIT) returns Err(e): last_error and last_run are
\* set under the write lock and collect returns Err(e), all_documents being
\* dropped
FetchPageErr ==
    /\ paging.pc = "fetch"
    /\ sanctions_state' = [sanctions_state EXCEPT
          !.last_run = Some(paging.call),
          !.last_error = Some(FetchError)]
    /\ paging' = [paging EXCEPT !.pc = "returned", !.page = None,
                                !.ret = [ok |-> FALSE, error |-> FetchError]]

\* fetch_page returns Ok(page) with result_count records and the total the
\* source reports: the records are pushed onto all_documents; then the loop
\* is left (and the state is updated and Ok(all_documents) returned) or
\* offset advances by PAGE_LIMIT
FetchPageOk(result_count, total) ==
    /\ paging.pc = "fetch"
    /\ IF LoopEnds(paging.offset, result_count, total)
       THEN /\ sanctions_state' = [sanctions_state EXCEPT
                  !.last_run = Some(paging.call),
                  !.documents_collected =
                      AddDocuments(@, paging.all_documents + result_count),
                  !.last_error = None]
            /\ paging' = [paging EXCEPT
                  !.pc = "returned",
                  !.all_documents = @ + result_count,
                  !.pages = @ + 1,
                  !.page = Some([offset |-> paging.offset, results |-> result_count,
                                 total |-> total]),
                  !.offset = IF ShortPage(result_count)
                                \/ TotalReached(paging.offset, result_count, total)
                             THEN @ ELSE @ + PAGE_LIMIT,
                  !.ret = [ok |-> TRUE, documents |-> paging.all_documents + result_count]]
       ELSE /\ paging' = [paging EXCEPT
                  !.all_documents = @ + result_count,
                  !.pages = @ + 1,
                  !.page = Some([offset |-> paging.offset, results |-> result_count,
                                 total |-> total]),
                  !.offset = @ + PAGE_LIMIT]
            /\ UNCHANGED sanctions_state

PagesNext ==
    \/ SanctionsCollect
    \/ FetchPageErr
    \/ \E result_count \in PageSizes : \E total \in PageTotals :
          FetchPageOk(result_count, total)

----------------------------------------------------------------------------
(* GdeltAgent::parse_events *)

\* const MAX_EVENTS: usize = 5000
MAX_EVENTS == 5000

\* const GDELT_EVENT_COLUMNS: usize = 58
GDELT_EVENT_COLUMNS == 58

\* col::SOURCE_URL, the largest column index parse_events reads
SOURCE_URL == 57

\* the numbers of fields line.split('\t') gives for the rows of an export: an
\* empty line or a line without a tab (1), a row one column short, a full row
\* and a row with a column more
ColumnCounts == {1, GDELT_EVENT_COLUMNS - 1, GDELT_EVENT_COLUMNS, GDELT_EVENT_COLUMNS + 1}

\* the texts of the first field of a row, character by character
EventIds == {<<>>, <<" ">>, <<"7">>, <<" ", "8", " ">>}

\* a row of the export: the number of its fields and its first field
Rows == [columns : ColumnCounts, key : EventIds]

\* n times the row
Repeated(row, n) == [i \in 1..n |-> row]

\* the lengths of the runs of equal rows an export is made of: the first run
\* ends before, at or one short of the cap
FirstRuns == {0, 1, MAX_EVENTS - 1, MAX_EVENTS}

SecondRuns == {0, 1, 2}

\* the exports: a run of one row followed by a run of another
Exports ==
    { Repeated(r1, n1) \o Repeated(r2, n2) :
        <<r1, n1, r2, n2>> \in Rows \X FirstRuns \X Rows \X SecondRuns }

\* parse_events has not been called
EventsIdle == csv = <<>> /\ events = [pc |-> "idle", documents |-> <<>>]

\* an export is about to be parsed
EventsInit == csv \in Exports /\ events = [pc |-> "called", documents |-> <<>>]

\* csv.lines().take(MAX_EVENTS)
Taken(rows) == SubSeq(rows, 1, IF Len(rows) < MAX_EVENTS THEN Len(rows) ELSE MAX_EVENTS)

\* `if fields.len() < GDELT_EVENT_COLUMNS { continue; }`
TooFewColumns(row) == row.columns < GDELT_EVENT_COLUMNS

\* fields[col::GLOBAL_EVENT_ID].trim()
global_event_id(row) == trim(row.key)

\* the body of the loop reaches documents.push for the row: neither `continue`
\* is taken
Pushed(row) == ~TooFewColumns(row) /\ global_event_id(row) # <<>>

\* the body of the loop indexes fields out of its bounds: a field up to
\* col::SOURCE_URL is read of a row that has passed the test of the columns
IndexPanics(row) == ~TooFewColumns(row) /\ row.columns <= SOURCE_URL

\* source_id: format!("gdelt-event-{global_event_id}")
EventDocument(row) ==
    [source |-> "gdelt", source_id |-> <<"gdelt-event-">> \o global_event_id(row)]

\* the documents pushed for the rows, which all reach documents.push
EventDocuments(rows) == [i \in DOMAIN rows |-> EventDocument(rows[i])]

\* the documents of the rows that reach documents.push, in the rows' order
DocumentsOf(rows) == EventDocuments(SelectSeq(rows, Pushed))

\* mutant: the cap is put on the documents pushed, not on the lines read
parse_events_caps_documents(rows) ==
    [pc |-> "returned", documents |-> Taken(DocumentsOf(rows))]

\* parse_events(csv): the documents pushed over the first MAX_EVENTS lines, or
\* the panic of an index out of bounds
parse_events(rows) ==
    IF \E i \in DOMAIN Taken(rows) : IndexPanics(rows[i])
    THEN [pc |-> "panicked", documents |-> <<>>]
    ELSE [pc |-> "returned", documents |-> DocumentsOf(Taken(rows))]

\* parse_events runs through the export and returns
ParseEvents ==
    /\ events.pc = "called"
    /\ events' = parse_events(csv)
    /\ UNCHANGED csv

EventsNext == ParseEvents

----------------------------------------------------------------------------
(* parse_llm_response: from the response text to the JSON document *)

\* tokens a response text holds at most
MaxResponseTokens == 5

\* the tokens of a response text: the code-fence marker (FENCE), a line break, the
\* braces, the members of an extraction object ("entities": [],
\* "relationships": []) and other text (a language tag, prose)
ResponseTokens == {"FENCE", "\n", "{", "}", "members", "text"}

\* the response texts
ResponseTexts == SeqsUpTo(ResponseTokens, MaxResponseTokens)

\* no response text at hand
TextIdle == raw_json = <<>> /\ parse_result = [pc |-> "idle"]

\* a response text is about to be parsed
TextInit == raw_json \in ResponseTexts /\ parse_result = [pc |-> "called"]

\* str::starts_with
starts_with(s, prefix) == Len(s) >= Len(prefix) /\ SubSeq(s, 1, Len(prefix)) = prefix

\* str::find(ch) and str::rfind(ch): the 0-based index of the first and of
\* the last occurrence, if there is one
find(s, ch) ==
    IF \E i \in DOMAIN s : s[i] = ch
    THEN Some(CHOOSE i \in 0..(Len(s) - 1) :
                 s[i + 1] = ch /\ \A j \in 0..(i - 1) : s[j + 1] # ch)
    ELSE None

rfind(s, ch) ==
    IF \E i \in DOMAIN s : s[i] = ch
    THEN Some(CHOOSE i \in 0..(Len(s) - 1) :
                 s[i + 1] = ch /\ \A j \in (i + 1)..(Len(s) - 1) : s[j + 1] # ch)
    ELSE None

\* cleaned.find('{').unwrap_or(0)
SliceStart(cleaned) == IF find(cleaned, "{").some THEN find(cleaned, "{").val ELSE 0

\* cleaned.rfind('}').map(|i| i + 1).unwrap_or(cleaned.len())
SliceEnd(cleaned) ==
    IF rfind(cleaned, "}").some THEN rfind(cleaned, "}").val + 1 ELSE Len(cleaned)

\* &cleaned[start..end] panics when start > end
SlicePanics(cleaned) == SliceStart(cleaned) > SliceEnd(cleaned)

\* cleaned.starts_with of the three backquotes
Fenced(cleaned) == starts_with(cleaned, <<"FENCE">>)

\* the text handed to serde_json: the trimmed response, cut from its first
\* '{' to its last '}' if it begins with a code fence
Cleaned(raw) ==
    IF Fenced(trim(raw))
    THEN SubSeq(trim(raw), SliceStart(trim(raw)) + 1, SliceEnd(trim(raw)))
    ELSE trim(raw)

\* the texts serde_json accepts as an LlmExtractionOutput, white space around
\* them aside: an object with the two members, or with none, both fields
\* having a default
JsonObjects == {<<"{", "members", "}">>, <<"{", "}">>}

\* serde_json::from_str::<LlmExtractionOutput>: the output, or None for Err
from_str(s) ==
    IF trim(s) \in JsonObjects THEN Some([entities |-> <<>>, relationships |-> <<>>]) ELSE None

\* the typed error: ArgusError::Extraction("Failed to parse LLM JSON output: ..")
ExtractionParseError == [kind |-> "Extraction", message |-> "Failed to parse LLM JSON output"]

\* parse_llm_response(raw_json, source) up to the deserialized output, and
\* the entities and relationships built from it
parse_llm_text(raw) ==
    IF Fenced(trim(raw)) /\ SlicePanics(trim(raw))
    THEN [pc |-> "panicked"]
    ELSE IF from_str(Cleaned(raw)).some
         THEN [pc |-> "returned", ok |-> TRUE,
               value |-> parse_llm_response(from_str(Cleaned(raw)).val)]
         ELSE [pc |-> "returned", ok |-> FALSE, error |-> ExtractionParseError]

\* parse_llm_response runs on the text
ParseText ==
    /\ parse_result.pc = "called"
    /\ parse_result' = parse_llm_text(raw_json)
    /\ UNCHANGED raw_json

TextNext == ParseText

----------------------------------------------------------------------------
(* Specifications *)

\* a registry of n finished scheduled runs of gdelt, as n turns of its loop
\* whose collect returned no document leave it
FinishedRuns(n) ==
    [i \in 1..n |->
        [NewRun(i, "gdelt") EXCEPT !.status = "completed", !.finished_at = Some(Now)]]

\* the registry lengths a behaviour starts from: the empty registry of
\* main.rs, and one short of the cap
InitialLengths == {0, RUN_CAP - 1}

RunsInit ==
    /\ \E n \in InitialLengths :
         /\ runs = FinishedRuns(n)
         /\ nextRunId = n + 1
         /\ scheduled = 1..n
    /\ loops = [a \in ScheduledAgents |-> IdleTask]
    /\ pipelines = {}
    /\ response = [status |-> 0, run_id |-> 0]
    /\ started = 0
    /\ env = {}
    /\ sched = Len(SCHEDULES) + 1
    /\ spawned = SpawnedWithout({})

RunsIdle ==
    /\ runs = <<>>
    /\ nextRunId = 1
    /\ scheduled = {}
    /\ loops = [a \in ScheduledAgents |-> IdleTask]
    /\ pipelines = {}
    /\ response = [status |-> 0, run_id |-> 0]
    /\ started = 0
    /\ env = {}
    /\ sched = Len(SCHEDULES) + 1
    /\ spawned = SpawnedWithout({})

GraphIdle == GraphInit /\ vocab = "keys"

RunsNext ==
    \/ \E a \in DOMAIN loops : LoopStartRun(a)
    \/ \E a \in DOMAIN loops : LoopCollectFails(a)
    \/ \E a \in DOMAIN loops : \E n \in DocCounts : LoopCollectOk(a, n)
    \/ \E a \in DOMAIN loops : LoopExtractFails(a)
    \/ \E a \in DOMAIN loops : \E k \in ResultCounts(loops[a].doc_count) :
          \E m \in EntityCounts(k) : LoopExtractOk(a, k, m)
    \/ \E a \in DOMAIN loops : \E ok \in BOOLEAN : LoopStore(a, ok)
    \/ \E a \in DOMAIN loops : LoopCrossReference(a)
    \/ \E a \in DOMAIN loops : LoopFinish(a)
    \/ \E a \in DOMAIN loops : LoopWake(a)
    \/ \E name \in UnknownAgents : TriggerUnknown(name)
    \/ \E name \in Agents : TriggerAgent(name)
    \/ \E t \in pipelines : PipelineCollectFails(t)
    \/ \E t \in pipelines : \E n \in DocCounts : PipelineCollectOk(t, n)
    \/ \E t \in pipelines : PipelineExtractFails(t)
    \/ \E t \in pipelines : \E k \in ResultCounts(t.doc_count) :
          \E m \in EntityCounts(k) : PipelineExtractOk(t, k, m)
    \/ \E t \in pipelines : PipelineStoreFails(t)
    \/ \E t \in pipelines : PipelineStoreOk(t)

\* the run variables when main.rs hands over to run_scheduler: an empty
\* registry, no loop, and any set of environment variables
SchedulerInit ==
    /\ runs = <<>>
    /\ nextRunId = 1
    /\ scheduled = {}
    /\ loops = [a \in {} |-> IdleTask]
    /\ pipelines = {}
    /\ response = [status |-> 0, run_id |-> 0]
    /\ started = 0
    /\ env \in SUBSET EnvVars
    /\ sched = 1
    /\ spawned = <<>>

\* the steps of cross_reference's loops
XrefNext ==
    \/ \E a \in DOMAIN loops : \E o \in {"err", "empty", "docs"} : XrefLookup(a, o)
    \/ \E a \in DOMAIN loops : \E k \in {0, 1} : XrefExtract(a, k)
    \/ \E a \in DOMAIN loops : \E ok \in BOOLEAN : XrefStore(a, ok)

SchedulerNext ==
    \/ SchedulerSkip
    \/ SchedulerSpawn
    \/ RunsNext

\* the runs with the steps of cross_reference
LookupsNext ==
    \/ XrefNext
    \/ RunsNext

InitStore == GraphInit /\ RunsIdle /\ ParseIdle /\ BatchIdle /\ EngineIdle /\ InterpretIdle /\ AgentsInit /\ PagesIdle /\ EventsIdle /\ TextIdle

SpecStore == InitStore /\ [][GraphNext /\ UNCHANGED <<runVars, parseVars, batchVars, engineVars, interpretVars, agentVars, pageVars, eventVars, textVars>>]_vars

InitRuns == RunsInit /\ GraphIdle /\ ParseIdle /\ BatchIdle /\ EngineIdle /\ InterpretIdle /\ AgentsInit /\ PagesIdle /\ EventsIdle /\ TextIdle

SpecRuns == InitRuns /\ [][RunsNext /\ UNCHANGED <<graphVars, parseVars, batchVars, engineVars, interpretVars, agentVars, pageVars, eventVars, textVars>>]_vars

InitScheduler == SchedulerInit /\ GraphIdle /\ ParseIdle /\ BatchIdle /\ EngineIdle /\ InterpretIdle /\ AgentsInit /\ PagesIdle /\ EventsIdle /\ TextIdle

SpecScheduler == InitScheduler /\ [][SchedulerNext /\ UNCHANGED <<graphVars, parseVars, batchVars, engineVars, interpretVars, agentVars, pageVars, eventVars, textVars>>]_vars

\* run_scheduler has spawned its loops, no environment variable being set,
\* and the loop of gdelt has made one turn, whose collect returned no
\* document; the extraction results to come hold entities other agents can
\* look up
LookupsInit ==
    /\ runs = FinishedRuns(1)
    /\ nextRunId = 2
    /\ scheduled = {1}
    /\ loops = [a \in ScheduledAgents |-> IdleTask]
    /\ pipelines = {}
    /\ response = [status |-> 0, run_id |-> 0]
    /\ started = 1
    /\ env = {}
    /\ sched = Len(SCHEDULES) + 1
    /\ spawned = SpawnedWithout({})

InitLookups == LookupsInit /\ GraphEmpty /\ vocab = "lookups" /\ ParseIdle /\ BatchIdle /\ EngineIdle /\ InterpretIdle /\ AgentsInit /\ PagesIdle /\ EventsIdle /\ TextIdle

SpecLookups == InitLookups /\ [][LookupsNext /\ UNCHANGED <<graphVars, parseVars, batchVars, engineVars, interpretVars, agentVars, pageVars, eventVars, textVars>>]_vars

\* a call the run of the loop of agent a is waiting for returns: collect,
\* extract_batch, store_extraction, lookup, or the write lock of update_run
LoopReturns(a) ==
    /\ a \in DOMAIN loops
    /\ \/ LoopCollectFails(a)
       \/ \E n \in DocCounts : LoopCollectOk(a, n)
       \/ LoopExtractFails(a)
       \/ \E k \in ResultCounts(loops[a].doc_count) :
             \E m \in EntityCounts(k) : LoopExtractOk(a, k, m)
       \/ \E ok \in BOOLEAN : LoopStore(a, ok)
       \/ \E o \in {"err", "empty", "docs"} : XrefLookup(a, o)
       \/ \E k \in {0, 1} : XrefExtract(a, k)
       \/ \E ok \in BOOLEAN : XrefStore(a, ok)
       \/ LoopCrossReference(a)
       \/ LoopFinish(a)
    /\ UNCHANGED <<graphVars, parseVars, batchVars, engineVars, interpretVars, agentVars, pageVars, eventVars, textVars>>

\* a call the triggered run id is waiting for returns
PipelineReturns(id) ==
    /\ \E t \in pipelines :
          /\ t.run_id = id
          /\ \/ PipelineCollectFails(t)
             \/ \E n \in DocCounts : PipelineCollectOk(t, n)
             \/ PipelineExtractFails(t)
             \/ \E k \in ResultCounts(t.doc_count) :
                   \E m \in EntityCounts(k) : PipelineExtractOk(t, k, m)
             \/ PipelineStoreFails(t)
             \/ PipelineStoreOk(t)
    /\ UNCHANGED <<graphVars, parseVars, batchVars, engineVars, interpretVars, agentVars, pageVars, eventVars, textVars>>

\* the run_ids a behaviour can mint
RunIds == 1..MaxRuns

\* every task is scheduled again and again, and the calls it awaits return;
\* nothing obliges a loop to wake or a client to trigger
CallsReturn ==
    /\ \A a \in Agents : WF_vars(LoopReturns(a))
    /\ \A id \in RunIds : WF_vars(PipelineReturns(id))

FairLookups == SpecLookups /\ CallsReturn

InitParse == ParseInit /\ GraphIdle /\ RunsIdle /\ BatchIdle /\ EngineIdle /\ InterpretIdle /\ AgentsInit /\ PagesIdle /\ EventsIdle /\ TextIdle

SpecParse == InitParse /\ [][Parse /\ UNCHANGED <<graphVars, runVars, batchVars, engineVars, interpretVars, agentVars, pageVars, eventVars, textVars>>]_vars

InitBatch == BatchInit /\ GraphIdle /\ RunsIdle /\ ParseIdle /\ EngineIdle /\ InterpretIdle /\ AgentsInit /\ PagesIdle /\ EventsIdle /\ TextIdle

SpecBatch == InitBatch /\ [][BatchNext /\ UNCHANGED <<graphVars, runVars, parseVars, engineVars, interpretVars, agentVars, pageVars, eventVars, textVars>>]_vars

InitEngine == EngineInit /\ GraphIdle /\ RunsIdle /\ ParseIdle /\ BatchIdle /\ InterpretIdle /\ AgentsInit /\ PagesIdle /\ EventsIdle /\ TextIdle

SpecEngine == InitEngine /\ [][EngineNext /\ UNCHANGED <<graphVars, runVars, parseVars, batchVars, interpretVars, agentVars, pageVars, eventVars, textVars>>]_vars

InitInterpret == InterpretInit /\ GraphIdle /\ RunsIdle /\ ParseIdle /\ BatchIdle /\ EngineIdle /\ AgentsInit /\ PagesIdle /\ EventsIdle /\ TextIdle

SpecInterpret ==
    InitInterpret
    /\ [][ParseInterpretation
          /\ UNCHANGED <<graphVars, runVars, parseVars, batchVars, engineVars, agentVars, pageVars, eventVars, textVars>>]_vars

InitAgents ==
    AgentsInit /\ GraphIdle /\ RunsIdle /\ ParseIdle /\ BatchIdle /\ EngineIdle /\ InterpretIdle /\ PagesIdle /\ EventsIdle /\ TextIdle

SpecAgents ==
    InitAgents
    /\ [][AgentsNext
          /\ UNCHANGED <<graphVars, runVars, parseVars, batchVars, engineVars, interpretVars, pageVars, eventVars, textVars>>]_vars

\* the entity of the "timestamps" vocabulary with the given id
TimestampsEntity(id) == CHOOSE e \in Entities("timestamps") : e.id = id

\* the graph in which relationships are upserted: empty, or holding the two
\* entities of the vocabulary after a store_extraction of both that committed
EdgesInit ==
    /\ vocab = "timestamps"
    /\ nodes \in {<<>>, StoreEntity(StoreEntity(<<>>, TimestampsEntity(1)), TimestampsEntity(2))}
    /\ edges = <<>>
    /\ txn = NoTxn
    /\ lastStore = [outcome |-> IF nodes = <<>> THEN "pending" ELSE "ok",
                    entities |-> Len(nodes), relationships |-> 0]
    /\ writes = 0

InitEdges ==
    EdgesInit /\ RunsIdle /\ ParseIdle /\ BatchIdle /\ EngineIdle /\ InterpretIdle /\ AgentsInit /\ PagesIdle /\ EventsIdle /\ TextIdle

SpecEdges ==
    InitEdges
    /\ [][GraphNext
          /\ UNCHANGED <<runVars, parseVars, batchVars, engineVars, interpretVars, agentVars, pageVars, eventVars, textVars>>]_vars

\* an empty graph that receives entities created at different instants
SeenInit == GraphEmpty /\ vocab = "times"

InitSeen ==
    SeenInit /\ RunsIdle /\ ParseIdle /\ BatchIdle /\ EngineIdle /\ InterpretIdle /\ AgentsInit /\ PagesIdle /\ EventsIdle /\ TextIdle

SpecSeen ==
    InitSeen
    /\ [][GraphNext
          /\ UNCHANGED <<runVars, parseVars, batchVars, engineVars, interpretVars, agentVars, pageVars, eventVars, textVars>>]_vars

\* a triggered run of gdelt, the first run of the process, is still in its
\* collect while the loops have registered and finished RUN_CAP - 1 runs: its
\* record is the oldest of a registry one short of the cap
EvictInit ==
    /\ runs = <<NewRun(1, "gdelt")>>
                \o [i \in 1..(RUN_CAP - 1) |->
                      [NewRun(i + 1, "gdelt") EXCEPT !.status = "completed",
                                                     !.finished_at = Some(Now)]]
    /\ nextRunId = RUN_CAP + 1
    /\ scheduled = 2..RUN_CAP
    /\ loops = [a \in ScheduledAgents |-> IdleTask]
    /\ pipelines = {[IdleTask EXCEPT !.pc = "collect", !.run_id = 1]}
    /\ response = [status |-> 202, run_id |-> 1]
    /\ started = 1
    /\ env = {}
    /\ sched = Len(SCHEDULES) + 1
    /\ spawned = SpawnedWithout({})

InitEvict ==
    EvictInit /\ GraphIdle /\ ParseIdle /\ BatchIdle /\ EngineIdle /\ InterpretIdle /\ AgentsInit /\ PagesIdle /\ EventsIdle /\ TextIdle

SpecEvict ==
    InitEvict
    /\ [][RunsNext
          /\ UNCHANGED <<graphVars, parseVars, batchVars, engineVars, interpretVars, agentVars, pageVars, eventVars, textVars>>]_vars

InitPages ==
    PagesIdle /\ GraphIdle /\ RunsIdle /\ ParseIdle /\ BatchIdle /\ EngineIdle /\ InterpretIdle /\ AgentsInit /\ EventsIdle /\ TextIdle

SpecPages ==
    InitPages
    /\ [][PagesNext
          /\ UNCHANGED <<graphVars, runVars, parseVars, batchVars, engineVars, interpretVars, agentVars, eventVars, textVars>>]_vars

\* the fetch_page call a collect is waiting for returns
PageReturns ==
    /\ \/ FetchPageErr
       \/ \E result_count \in PageSizes : \E total \in PageTotals :
             FetchPageOk(result_count, total)
    /\ UNCHANGED <<graphVars, runVars, parseVars, batchVars, engineVars, interpretVars, agentVars, eventVars, textVars>>

\* every fetch_page call returns: the request is answered or fails
PagesReturn == WF_vars(PageReturns)

FairPages == SpecPages /\ PagesReturn

InitEvents ==
    EventsInit /\ GraphIdle /\ RunsIdle /\ ParseIdle /\ BatchIdle /\ EngineIdle /\ InterpretIdle /\ AgentsInit /\ PagesIdle /\ TextIdle

SpecEvents ==
    InitEvents
    /\ [][EventsNext
          /\ UNCHANGED <<graphVars, runVars, parseVars, batchVars, engineVars, interpretVars, agentVars, pageVars, textVars>>]_vars

InitText ==
    TextInit /\ GraphIdle /\ RunsIdle /\ ParseIdle /\ BatchIdle /\ EngineIdle /\ InterpretIdle /\ AgentsInit /\ PagesIdle /\ EventsIdle

SpecText ==
    InitText
    /\ [][TextNext
          /\ UNCHANGED <<graphVars, runVars, parseVars, batchVars, engineVars, interpretVars, agentVars, pageVars, eventVars>>]_vars

----------------------------------------------------------------------------
(* Properties of the graph store *)

\* the step is a store_extraction call returning Ok(())
StoreReturnsOk == txn.active /\ lastStore'.outcome = "ok"

\* the step is a store_extraction call returning an error
StoreReturnsErr == lastStore'.outcome = "err" /\ lastStore' # lastStore

SameTypeAndName(n, e) ==
    /\ n.label = entity_type_to_label(e.entity_type)
    /\ toLower(n.name) = toLower(e.name)

\* C2: after a store_extraction call, every node the call wrote has a
\* confidence at least the incoming confidence and at least its previous
\* confidence, and no node's confidence has decreased.
C2_ConfidenceAtLeastMax ==
    [][StoreReturnsOk =>
        /\ \A k \in DOMAIN txn.entities : \A i \in txn.wrote[k] :
              /\ nodes'[i].confidence >= txn.entities[k].confidence
              /\ i \in DOMAIN nodes => nodes'[i].confidence >= nodes[i].confidence
        /\ \A i \in DOMAIN nodes : nodes'[i].confidence >= nodes[i].confidence]_vars

EdgeTuple(ed) == <<ed.a, ed.b, ed.label, ed.source>>

EdgeTuplesUnique(es) ==
    \A k, l \in DOMAIN es : k # l => EdgeTuple(es[k]) # EdgeTuple(es[l])

\* C3: the graph, as committed and as seen inside the open transaction, holds
\* at most one edge per (source node, target node, relation type, source).
C3_EdgeTupleUnique ==
    EdgeTuplesUnique(edges) /\ (txn.active => EdgeTuplesUnique(txn.edges))

\* C3 witness: the open transaction stored a relationship whose tuple the
\* committed graph already held, and no second edge was made.
C3_Witness ==
    /\ txn.active
    /\ edges # <<>>
    /\ \E k \in DOMAIN txn.relationships :
         \E p \in EndpointPairs(nodes, txn.relationships[k]) :
           \E l \in DOMAIN edges :
              EdgeTuple(edges[l]) =
                 <<p[1], p[2], relation_type_to_label(txn.relationships[k].relation_type),
                   txn.relationships[k].source>>
    /\ Len(txn.edges) = Len(edges)

\* C4: two nodes of the same type whose names are equal ignoring case were
\* inserted under distinct (source, source_id) keys.
C4_NoSameNameUnlessDistinctKeys ==
    \A i, j \in DOMAIN nodes :
        (i # j /\ nodes[i].label = nodes[j].label
               /\ toLower(nodes[i].name) = toLower(nodes[j].name))
        => <<nodes[i].source, nodes[i].source_id>> # <<nodes[j].source, nodes[j].source_id>>

\* the step commits a result of the single entity e, and a node of e's type and
\* name (ignoring case) with another source exists
StoresOntoOtherSource(e) ==
    /\ StoreReturnsOk
    /\ txn.entities = <<e>>
    /\ txn.relationships = <<>>
    /\ \E i \in DOMAIN nodes : SameTypeAndName(nodes[i], e) /\ nodes[i].source # e.source

\* C5 as claimed: storing an entity of the type and name (ignoring case) of a
\* node with another source creates no node, leaves exactly one node of that
\* type and name, whose sources hold both sources and whose confidence is the
\* larger one.
C5_ExactlyOneNodeAfterMerge ==
    [][\A e \in Entities(vocab) : StoresOntoOtherSource(e) =>
        /\ Len(nodes') = Len(nodes)
        /\ Cardinality({i \in DOMAIN nodes' : SameTypeAndName(nodes'[i], e)}) = 1
        /\ \A i \in DOMAIN nodes' : SameTypeAndName(nodes'[i], e) =>
              /\ {nodes[i].source, e.source} \subseteq Range(nodes'[i].sources)
              /\ nodes'[i].confidence = MaxConfidenceOf(nodes[i].confidence, e.confidence)]_vars

\* C5 as amended: it creates no node and leaves the nodes of that type and name
\* those there were before (one if there was one); each of them with another
\* source than the incoming one holds both sources and the larger confidence.
C5_NoNewNodeAndMerged ==
    [][\A e \in Entities(vocab) : StoresOntoOtherSource(e) =>
        /\ Len(nodes') = Len(nodes)
        /\ {i \in DOMAIN nodes' : SameTypeAndName(nodes'[i], e)}
              = {i \in DOMAIN nodes : SameTypeAndName(nodes[i], e)}
        /\ \A i \in DOMAIN nodes :
              (SameTypeAndName(nodes[i], e) /\ nodes[i].source # e.source) =>
                 /\ {nodes[i].source, e.source} \subseteq Range(nodes'[i].sources)
                 /\ nodes'[i].confidence
                       = (IF e.confidence >= nodes[i].confidence
                          THEN e.confidence ELSE nodes[i].confidence)]_vars

\* C5 witness: a single entity with a higher confidence has been written onto
\* a committed node of its type and name that has another source.
C5_Witness ==
    /\ txn.active
    /\ Len(txn.entities) = 1
    /\ \E i \in DOMAIN nodes :
         /\ SameTypeAndName(nodes[i], txn.entities[1])
         /\ nodes[i].source # txn.entities[1].source
         /\ nodes[i].name # txn.entities[1].name
         /\ txn.entities[1].confidence > nodes[i].confidence
         /\ txn.nodes[i].confidence = txn.entities[1].confidence

NoDuplicates(seq) == \A k, l \in DOMAIN seq : k # l => seq[k] # seq[l]

SourcesWellFormed(ns) ==
    \A i \in DOMAIN ns : NoDuplicates(ns[i].sources) /\ ns[i].source \in Range(ns[i].sources)

\* C6: every node's sources list has no duplicate and holds the node's
\* original source, in the committed graph and inside the open transaction.
C6_SourcesSetWithOrigin ==
    SourcesWellFormed(nodes) /\ (txn.active => SourcesWellFormed(txn.nodes))

\* C6 witness: a node that lists two sources has been written again by an
\* entity of a source it already lists.
C6_Witness ==
    /\ txn.active
    /\ \E k \in DOMAIN txn.entities : \E i \in txn.wrote[k] :
         /\ i \in DOMAIN nodes
         /\ Len(nodes[i].sources) = 2
         /\ txn.entities[k].source \in Range(nodes[i].sources)

\* the nodes the call wrote for the entity with this id
NodesHolding(id) ==
    UNION { txn.wrote[k] : k \in {j \in DOMAIN txn.entities : txn.entities[j].id = id} }

\* C7: after a successful store_extraction(R), every relationship of R whose
\* endpoints are entities of R is an edge between the nodes holding them.
C7_RelationshipsStored ==
    [][StoreReturnsOk =>
        \A k \in DOMAIN txn.relationships :
          LET r == txn.relationships[k] IN
            (NodesHolding(r.source_entity_id) # {} /\ NodesHolding(r.target_entity_id) # {})
            => \E l \in DOMAIN edges' :
                  /\ edges'[l].a \in NodesHolding(r.source_entity_id)
                  /\ edges'[l].b \in NodesHolding(r.target_entity_id)
                  /\ edges'[l].label = relation_type_to_label(r.relation_type)
                  /\ edges'[l].source = r.source]_vars

\* all the writes of a result, applied in order to a graph
RECURSIVE ApplyEntities(_, _)
ApplyEntities(ns, es) ==
    IF es = <<>> THEN ns ELSE ApplyEntities(StoreEntity(ns, Head(es)), Tail(es))

RECURSIVE ApplyRelationships(_, _, _)
ApplyRelationships(ns, es, rs) ==
    IF rs = <<>> THEN es
    ELSE ApplyRelationships(ns, StoreRelationship(ns, es, Head(rs)), Tail(rs))

----------------------------------------------------------------------------
(* Properties of the run registry and of the runs *)

\* C1: every snapshot list_runs returns holds at most 100 run records.
C1_SnapshotAtMostCap == Len(list_runs(runs)) <= RUN_CAP

\* the number of records at the front of the registry old that are no longer
\* in the registry new: those before the record that is now the first
Dropped(old, new) ==
    IF new = <<>> THEN Len(old)
    ELSE IF FindRun(old, new[1].run_id) = 0 THEN Len(old)
    ELSE FindRun(old, new[1].run_id) - 1

\* the record of the run with this run_id
RunOf(rs, id) == rs[FindRun(rs, id)]

Terminal(r) == r.status \in {"completed", "failed"}

\* a record is running exactly when it has no finished_at
RunningIffUnfinished(r) == (r.status = "running") <=> (r.finished_at = None)

\* C9: a record enters the registry running, without finished_at, counts or
\* error, under a run_id the registry does not hold; a running record changes
\* only by becoming completed or failed with finished_at set; a completed or
\* failed record never changes; and a record is running exactly when it has
\* no finished_at, initially and after every step. The records are followed
\* by their position: a step that changes the registry drops records from its
\* front and leaves the others in order.
C9_RunLifecycle ==
    /\ \A i \in DOMAIN runs : RunningIffUnfinished(runs[i])
    /\ [][\/ runs' = runs
          \/ \E d \in {Dropped(runs, runs')} : \A i \in DOMAIN runs' :
               /\ RunningIffUnfinished(runs'[i])
               /\ IF i + d \in DOMAIN runs
                  THEN /\ runs'[i].run_id = runs[i + d].run_id
                       /\ Terminal(runs[i + d]) => runs'[i] = runs[i + d]
                       /\ (~Terminal(runs[i + d]) /\ runs'[i] # runs[i + d]) =>
                             /\ Terminal(runs'[i])
                             /\ runs'[i].finished_at = Some(Now)
                             /\ runs'[i].agent_name = runs[i + d].agent_name
                             /\ runs'[i].started_at = runs[i + d].started_at
                  ELSE /\ FindRun(runs, runs'[i].run_id) = 0
                       /\ runs'[i] = NewRun(runs'[i].run_id, runs'[i].agent_name)]_vars

\* C9 witness: of the runs registered in this behaviour one has failed with
\* its error and one has completed with its counts, both with finished_at.
C9_Witness ==
    \E i, j \in DOMAIN runs :
        /\ runs[i].status = "failed" /\ runs[i].error # None
        /\ runs[i].finished_at = Some(Now)
        /\ runs[j].status = "completed" /\ runs[j].documents_collected > 0
        /\ runs[j].finished_at = Some(Now)

\* the calls a run has completed are collect, then extract_batch, then
\* store_extraction calls; and the call in progress comes after them
CallsInOrder(t) ==
    /\ \A i \in DOMAIN t.calls :
          /\ t.calls[i] = "collect" => i = 1
          /\ t.calls[i] = "extract" => (i = 2 /\ t.calls[1] = "collect")
          /\ t.calls[i] = "store" => (i >= 3 /\ t.calls[1] = "collect" /\ t.calls[2] = "extract")
          /\ t.calls[i] = "cross_reference" =>
                (i = Len(t.calls) /\ i >= 4 /\ t.calls[i - 1] = "store")
    /\ t.pc = "collect" => t.calls = <<>>
    /\ t.pc = "extract" => t.calls = <<"collect">>
    /\ t.pc = "store" => (Len(t.calls) >= 2 /\ t.calls[2] = "extract")
    /\ t.pc = "cross_reference" => (t.to_store = 0 /\ t.calls[Len(t.calls)] = "store")

\* the scheduled runs of agent a that the registry shows running
RunningScheduled(a) ==
    { runs[i].run_id : i \in { j \in DOMAIN runs :
          /\ runs[j].run_id \in scheduled
          /\ runs[j].agent_name = a
          /\ runs[j].status = "running" } }

\* C10: in every run collect completes before extract_batch starts, and
\* extract_batch before any store_extraction of its results, cross_reference
\* starting after the last of them; and the only scheduled run of an
\* agent that is in progress is the current run of its loop, none while the
\* loop sleeps or is about to start a run.
C10_StagesInOrderNoOverlap ==
    /\ \A a \in ScheduledAgents : CallsInOrder(loops[a])
    /\ \A t \in pipelines : CallsInOrder(t)
    /\ \A a \in ScheduledAgents :
          /\ RunningScheduled(a) \subseteq {loops[a].run_id}
          /\ loops[a].pc \in {"start", "sleep"} => RunningScheduled(a) = {}

\* C10 witness: the loop of an agent is in its second run, which has collected,
\* extracted and stored, its first run being finished.
C10_Witness ==
    \E a \in DOMAIN loops :
        /\ loops[a].calls = <<"collect", "extract", "store">>
        /\ RunningScheduled(a) = {loops[a].run_id}
        /\ FindRun(runs, loops[a].run_id - 1) # 0
        /\ RunOf(runs, loops[a].run_id - 1).agent_name = a
        /\ loops[a].run_id - 1 \in scheduled
        /\ Terminal(RunOf(runs, loops[a].run_id - 1))
        /\ started = 2

----------------------------------------------------------------------------
(* Properties of run_scheduler *)

\* how many times x occurs in the sequence s
Count(s, x) == Cardinality({i \in DOMAIN s : s[i] = x})

\* the SCHEDULES entries run_scheduler has handled
Handled == { i \in DOMAIN SCHEDULES : i < sched }

\* the entry's credential, if it requires one, is present and its agent is in
\* the registry
CredentialAndAgentPresent(i) ==
    /\ SCHEDULES[i].requires_env.some => SCHEDULES[i].requires_env.val \in env
    /\ SCHEDULES[i].name \in Agents

\* C18: run_scheduler has spawned exactly one loop for each entry it has
\* handled whose required credential (if any) is present and whose agent is in
\* the registry, and none for any other entry or agent; the loops that exist
\* are those spawned, and no record of a run the scheduler registered names an
\* agent whose loop was not spawned.
C18_OneLoopPerEligibleEntry ==
    /\ \A i \in Handled :
          Count(spawned, SCHEDULES[i].name) = IF CredentialAndAgentPresent(i) THEN 1 ELSE 0
    /\ \A j \in DOMAIN spawned : \E i \in Handled : SCHEDULES[i].name = spawned[j]
    /\ DOMAIN loops = Range(spawned)
    /\ \A k \in DOMAIN runs :
          runs[k].run_id \in scheduled => runs[k].agent_name \in Range(spawned)

\* C18 witness: AISHUB_API_KEY is not set and run_scheduler has handled every
\* entry: the loops of gdelt and opensanctions run, ais was skipped, and the
\* registry holds a scheduled run and a triggered run of ais.
C18_Witness ==
    /\ sched = Len(SCHEDULES) + 1
    /\ env = {}
    /\ spawned = <<"gdelt", "opensanctions">>
    /\ \E k \in DOMAIN runs : runs[k].run_id \in scheduled
    /\ \E k \in DOMAIN runs : runs[k].agent_name = "ais" /\ runs[k].run_id \notin scheduled

----------------------------------------------------------------------------
(* Properties of trigger_agent *)

----------------------------------------------------------------------------
(* Properties of list_runs *)

\* C17: the snapshot list_runs returns is newest first, the exact reverse of
\* the order of registration, and holds the most recently registered runs
\* without a gap: its first record is the last run registered and each next
\* record is the run registered just before, so eviction has removed none
\* but the oldest.
C17_SnapshotNewestFirst ==
    \E snapshot \in {list_runs(runs)} :
        /\ Len(snapshot) = Len(runs)
        /\ snapshot # <<>> => snapshot[1].run_id = nextRunId - 1
        /\ \A i \in 1..(Len(snapshot) - 1) : snapshot[i].run_id = snapshot[i + 1].run_id + 1

\* C17 witness: the registry is at its cap after an eviction: the snapshot
\* starts with run RUN_CAP + 1 and ends with run 2, run 1 being evicted.
C17_Witness ==
    /\ Len(runs) = RUN_CAP
    /\ list_runs(runs)[1].run_id = RUN_CAP + 1
    /\ list_runs(runs)[RUN_CAP].run_id = 2

----------------------------------------------------------------------------
(* Properties of agent_loop *)

\* the records of rs other than that of run id
OtherRuns(rs, id) == SelectSeq(rs, LAMBDA r : r.run_id # id)

\* C12: when collect or extract_batch fails in a scheduled run, the run's
\* record becomes failed with the error's message, the run has made and makes
\* no store_extraction call, no other record, loop or pipeline changes, and the
\* agent's loop goes to sleep, from where its next step begins a turn that
\* registers a new run of the same agent.
C12_FailureAbortsOnlyThatRun ==
    [][\A a \in DOMAIN loops :
          /\ (LoopCollectFails(a) \/ LoopExtractFails(a)) =>
                /\ RunOf(runs', loops[a].run_id).status = "failed"
                /\ RunOf(runs', loops[a].run_id).error =
                      Some(IF loops[a].pc = "collect" THEN CollectError ELSE ExtractError)
                /\ "store" \notin Range(loops'[a].calls)
                /\ loops'[a].pc = "sleep"
                /\ OtherRuns(runs', loops[a].run_id) = OtherRuns(runs, loops[a].run_id)
                /\ \A b \in DOMAIN loops \ {a} : loops'[b] = loops[b]
                /\ pipelines' = pipelines
          /\ (loops[a].pc = "sleep" /\ loops'[a] # loops[a]) =>
                (loops'[a].pc = "start" /\ loops'[a].calls = loops[a].calls)
          /\ (loops[a].pc = "start" /\ loops'[a] # loops[a]) =>
                /\ loops'[a].run_id \notin {runs[i].run_id : i \in DOMAIN runs}
                /\ RunOf(runs', loops'[a].run_id) = NewRun(loops'[a].run_id, a)]_vars

\* C12 witness: the first run of gdelt failed in extract_batch after one
\* document was collected, and the loop of gdelt has registered its second
\* run, which is collecting.
C12_Witness ==
    /\ "gdelt" \in DOMAIN loops
    /\ Len(runs) = 2
    /\ runs[1].agent_name = "gdelt" /\ runs[1].run_id \in scheduled
    /\ runs[1].status = "failed" /\ runs[1].error = Some(ExtractError)
    /\ runs[1].documents_collected = 1
    /\ runs[2].agent_name = "gdelt" /\ runs[2].status = "running"
    /\ loops["gdelt"].run_id = runs[2].run_id
    /\ loops["gdelt"].pc = "collect"

\* the positions of a run between the return of extract_batch and update_run
AfterExtract == {"store", "cross_reference", "xref_extract", "xref_store", "finish"}

\* a step of a scheduled run, seen from the store loop: extract_batch leaves
\* every result to store and no error counted; each store_extraction call,
\* failed or not, leaves one result less to store, the loop going on while
\* there is one, and the error count is positive exactly if this call or an
\* earlier one failed; until its last step the run's record stays as it is;
\* the last step has seen one call for every result and marks the run
\* completed, with the message of the storage errors exactly if one was counted
ScheduledRunStoresAll(a) ==
    /\ (loops[a].pc = "extract" /\ loops'[a].pc = "store") =>
          /\ loops'[a].to_store = Len(loops'[a].results)
          /\ loops'[a].store_errors = 0
    /\ (\E ok \in BOOLEAN : LoopStore(a, ok)) =>
          /\ loops'[a].to_store = loops[a].to_store - 1
          /\ loops'[a].to_store > 0 => loops'[a].pc = "store"
          /\ loops'[a].store_errors > 0 <=> (loops[a].store_errors > 0 \/ LoopStore(a, FALSE))
    /\ (loops[a].pc \in AfterExtract \ {"finish"}) =>
          /\ loops'[a].pc \in AfterExtract
          /\ RunOf(runs', loops[a].run_id) = RunOf(runs, loops[a].run_id)
    /\ LoopFinish(a) =>
          /\ Count(loops[a].calls, "store") = Len(loops[a].results)
          /\ RunOf(runs', loops[a].run_id).status = "completed"
          /\ RunOf(runs', loops[a].run_id).error.some <=> loops[a].store_errors > 0
          /\ loops[a].store_errors > 0 =>
                RunOf(runs', loops[a].run_id).error =
                   Some(StorageErrorsMessage(loops[a].store_errors))

\* a triggered run that leaves its store loop ends completed
TriggeredRunStoresAll(t) ==
    (t.pc = "store" /\ t \notin pipelines') =>
        /\ Count(t.calls, "store") + 1 = Len(t.results)
        /\ RunOf(runs', t.run_id).status = "completed"

\* C13: in a scheduled run store_extraction is attempted for every extraction
\* result, whether or not an earlier call failed, and the run ends completed;
\* its record carries the storage-errors message exactly when at least one
\* store_extraction call failed.
C13_ScheduledRunStoresAll ==
    [][\A a \in DOMAIN loops : ScheduledRunStoresAll(a)]_vars

\* C13 as stated, for every run: the same of scheduled and of triggered runs.
C13_EveryRunStoresAll ==
    [][/\ \A a \in DOMAIN loops : ScheduledRunStoresAll(a)
       /\ \A t \in pipelines : TriggeredRunStoresAll(t)]_vars

\* C13 witness: a scheduled run collected two documents and got two results;
\* both store_extraction calls failed, the second being attempted after the
\* first had failed, and the run is completed with the message of two errors.
C13_Witness ==
    \E i \in DOMAIN runs :
        /\ runs[i].run_id \in scheduled
        /\ runs[i].status = "completed"
        /\ runs[i].documents_collected = 2
        /\ runs[i].entities_extracted = 4
        /\ runs[i].error = Some(StorageErrorsMessage(2))

----------------------------------------------------------------------------
(* Properties of cross_reference *)

\* the positions of a run inside cross_reference
InCrossReference == {"cross_reference", "xref_extract", "xref_store"}

\* the record update_run leaves for the task t of a run that stored its
\* results, as its status, counts and message were fixed when the store loop
\* ended
RecordAfterStore(t, agent) ==
    [NewRun(t.run_id, agent) EXCEPT
        !.status = "completed",
        !.finished_at = Some(Now),
        !.documents_collected = t.doc_count,
        !.entities_extracted = t.entity_count,
        !.error = IF t.store_errors > 0
                  THEN Some(StorageErrorsMessage(t.store_errors)) ELSE None]

EntitiesPerResult == Len(ExtractedEntities(vocab))

\* how many times the entity e occurs in the extraction results
Occurrences(results, e) ==
    Cardinality({ p \in (DOMAIN results) \X (1..EntitiesPerResult) :
                    p[2] \in DOMAIN results[p[1]] /\ results[p[1]][p[2]] = e })

\* the entities an extraction result can hold
KnownEntities == Range(ExtractedEntities(vocab))

\* C15: the lookups a run has made were all made on an agent other than the
\* run's own that implements AgentLookup and whose can_lookup accepts the
\* entity's type; and once cross_reference has returned, each such agent has
\* been asked once for every occurrence of an entity in the run's extraction
\* results, and no other agent at all.
C15_LookupsExactlyOnCapableOthers ==
    \A a \in DOMAIN loops :
        /\ \A j \in DOMAIN loops[a].lookups :
              /\ loops[a].lookups[j].agent # a
              /\ downcast_lookup(loops[a].lookups[j].agent)
              /\ can_lookup(loops[a].lookups[j].agent, loops[a].lookups[j].entity.entity_type)
        /\ loops[a].pc \in {"finish", "sleep"} =>
              \A e \in KnownEntities : \A g \in Agents :
                  Count(loops[a].lookups, [entity |-> e, agent |-> g]) =
                     IF g # a /\ downcast_lookup(g) /\ can_lookup(g, e.entity_type)
                     THEN Occurrences(loops[a].results, e) ELSE 0

\* C15 witness: a run of opensanctions with two extraction results has left
\* cross_reference: the vessel of each result was looked up on ais, and the
\* person, whose type opensanctions itself accepts, on no agent.
C15_Witness ==
    /\ loops["opensanctions"].pc = "finish"
    /\ Len(loops["opensanctions"].results) = 2
    /\ loops["opensanctions"].lookups =
          << [entity |-> [name |-> "Vega", entity_type |-> "vessel"], agent |-> "ais"],
             [entity |-> [name |-> "Vega", entity_type |-> "vessel"], agent |-> "ais"] >>

----------------------------------------------------------------------------
(* Properties of parse_llm_response *)

\* the strings s and t are equal ignoring case
EqualIgnoringCase(s, t) ==
    /\ Len(s) = Len(t)
    /\ \A i \in DOMAIN s : LowerChar(s[i]) = LowerChar(t[i])

\* the entities of the LLM's response with the name or an alias s, ignoring case
MatchingEntities(s) ==
    { i \in DOMAIN llm.entities :
        \/ EqualIgnoringCase(llm.entities[i].name, s)
        \/ \E k \in DOMAIN llm.entities[i].aliases :
              EqualIgnoringCase(llm.entities[i].aliases[k], s) }

\* parse_llm_response has returned
Parsed == "pending" \notin DOMAIN parsed

\* the relationships parsed from the j-th relationship of the response
ParsedFrom(j) == { k \in DOMAIN parsed.relationships : parsed.relationships[k].origin = j }

EntityIds == { parsed.entities[i].id : i \in DOMAIN parsed.entities }

Last(S) == CHOOSE i \in S : \A k \in S : k <= i

\* C19: in the result of parsing an LLM response, both endpoint ids of every
\* relationship are ids of entities of the result, which holds one entity for
\* each entity of the response and no other; and a relationship of the
\* response whose source or target is no entity's name or alias has no
\* relationship in the result.
C19_EndpointsAreParsedEntities ==
    Parsed =>
        /\ Len(parsed.entities) = Len(llm.entities)
        /\ \A k \in DOMAIN parsed.relationships :
              /\ parsed.relationships[k].source_entity_id \in EntityIds
              /\ parsed.relationships[k].target_entity_id \in EntityIds
        /\ \A j \in DOMAIN llm.relationships :
              (\/ MatchingEntities(llm.relationships[j].source) = {}
               \/ MatchingEntities(llm.relationships[j].target) = {}) => ParsedFrom(j) = {}

\* C19 witness: the response's relationship has a source that is an entity's
\* name or alias and a target that is none, and the result holds the entities
\* and no relationship.
C19_Witness ==
    /\ Parsed
    /\ Len(llm.relationships) = 1
    /\ MatchingEntities(llm.relationships[1].source) # {}
    /\ MatchingEntities(llm.relationships[1].target) = {}
    /\ parsed.relationships = <<>>
    /\ Len(parsed.entities) = 2

\* what parse_llm_response does: a relationship of the response whose source
\* and target each equal, ignoring case, the name or an alias of an entity of
\* the response has exactly one relationship in the result, and each of its
\* endpoint ids is the id of the last entity of the response with that name or
\* alias, a later insert replacing an earlier one in name_to_id.
C20_ResolvesToLastMatchingEntity ==
    Parsed =>
        \A j \in DOMAIN llm.relationships :
            (/\ MatchingEntities(llm.relationships[j].source) # {}
             /\ MatchingEntities(llm.relationships[j].target) # {}) =>
                /\ Cardinality(ParsedFrom(j)) = 1
                /\ \A k \in ParsedFrom(j) :
                      /\ parsed.relationships[k].source_entity_id =
                            parsed.entities[Last(MatchingEntities(llm.relationships[j].source))].id
                      /\ parsed.relationships[k].target_entity_id =
                            parsed.entities[Last(MatchingEntities(llm.relationships[j].target))].id

\* C20: a relationship of the response whose source and target each equal,
\* ignoring case, the name or an alias of an entity of the response is kept,
\* and each of its endpoint ids is the id of the entity that has that name or
\* alias, whichever entity of the response that is.
C20_ResolvesToEveryMatchingEntity ==
    Parsed =>
        \A j \in DOMAIN llm.relationships :
            (/\ MatchingEntities(llm.relationships[j].source) # {}
             /\ MatchingEntities(llm.relationships[j].target) # {}) =>
                /\ Cardinality(ParsedFrom(j)) = 1
                /\ \A k \in ParsedFrom(j) :
                      /\ \A i \in MatchingEntities(llm.relationships[j].source) :
                            parsed.relationships[k].source_entity_id = parsed.entities[i].id
                      /\ \A i \in MatchingEntities(llm.relationships[j].target) :
                            parsed.relationships[k].target_entity_id = parsed.entities[i].id

\* the source "aC" of the response's relationship is, ignoring case, the name
\* of the first entity and an alias of the second, its target "BO" the name
\* of the second alone; the relationship is kept with the id of the second
\* entity at both ends.
AliasShadowsName ==
    /\ Parsed
    /\ Len(llm.relationships) = 1
    /\ MatchingEntities(llm.relationships[1].source) = {1, 2}
    /\ MatchingEntities(llm.relationships[1].target) = {2}
    /\ Len(parsed.relationships) = 1
    /\ parsed.relationships[1].source_entity_id = 2
    /\ parsed.relationships[1].target_entity_id = 2

----------------------------------------------------------------------------
(* Progress of the runs *)

\* the registry holds the record of run id, and it is running
RunningInRegistry(id) ==
    \E i \in DOMAIN runs : runs[i].run_id = id /\ runs[i].status = "running"

\* C11: when the calls a run awaits return, every run whose record is in the
\* registry as running, registered by a loop or by trigger_agent, comes to a
\* state in which its record is completed or failed, or has left the
\* registry; and whenever a loop registers a run, no earlier scheduled run of
\* its agent is still running.
C11_EveryRunIsMarked ==
    /\ \A id \in RunIds : RunningInRegistry(id) ~> ~RunningInRegistry(id)
    /\ [][\A a \in DOMAIN loops : LoopStartRun(a) => RunningScheduled(a) = {}]_vars

\* C11 witness: the run registered after the first one has come to its end
\* after collect, extract_batch, store_extraction and lookup calls returned:
\* its record is completed.
C11_Witness ==
    /\ Len(runs) = 2
    /\ runs[2].status = "completed"
    /\ runs[2].entities_extracted > 0
    /\ runs[2].run_id \in scheduled
    /\ \E a \in DOMAIN loops : loops[a].run_id = runs[2].run_id /\ loops[a].lookups # <<>>

----------------------------------------------------------------------------
(* Properties of extract_batch *)

\* the documents whose task ended in the given ways
DocumentsEnding(ends) ==
    {i \in DOMAIN join_set : join_set[i].state # "running" /\ join_set[i].end \in ends}

\* the positions of the results extracted from document i
ResultsOf(rs, i) == {k \in DOMAIN rs : rs[k].raw_source = documents[i]}

BatchReturned == batch.pc = "returned"

\* C21: extract_batch returns only after every task has been spawned and has
\* finished, whatever the order in which the tasks end and are joined.  With
\* at least one document it returns an error exactly when every task failed
\* or panicked, and that error carries one message per document, a panicked
\* task counting as one failed document.  Otherwise it returns Ok with exactly
\* one result per document whose task succeeded and no other result.  (An
\* empty batch has no task that failed: extract_batch returns Ok with no
\* result.)
C21_BatchReturnsAfterAllWithSuccesses ==
    BatchReturned =>
        /\ Len(join_set) = Len(documents)
        /\ \A i \in DOMAIN join_set : join_set[i].state = "joined"
        /\ ~batch.ret.ok <=>
              /\ documents # <<>>
              /\ DocumentsEnding({"ok"}) = {}
        /\ ~batch.ret.ok =>
              /\ Len(batch.ret.error.errors) = Len(documents)
              /\ Cardinality({k \in DOMAIN batch.ret.error.errors :
                                 ~batch.ret.error.errors[k].document.some})
                    = Cardinality(DocumentsEnding({"panic"}))
        /\ batch.ret.ok =>
              /\ Len(batch.ret.results) = Cardinality(DocumentsEnding({"ok"}))
              /\ \A i \in DocumentsEnding({"ok"}) :
                    Cardinality(ResultsOf(batch.ret.results, i)) = 1
              /\ Len(errors) = Cardinality(DocumentsEnding({"err", "panic"}))

\* a batch of three documents returned Ok: the task of the second panicked,
\* and the result of the third document precedes the result of the first
C21_Witness ==
    /\ BatchReturned
    /\ Len(documents) = 3
    /\ join_set[2].end = "panic"
    /\ batch.ret.ok
    /\ batch.ret.results = <<[raw_source |-> documents[3]], [raw_source |-> documents[1]]>>

\* every task of a batch panicked and the batch returned the single error
AllPanickedIsError ==
    /\ BatchReturned
    /\ documents # <<>>
    /\ DocumentsEnding({"panic"}) = DOMAIN join_set
    /\ ~batch.ret.ok

----------------------------------------------------------------------------
(* Properties of the reasoning engine *)

Answered == engine.pc = "returned" /\ engine.ret.val.ok

\* the call_llm calls made with a prompt of the given kind
CallsFor(prompt) == {k \in DOMAIN llm_calls : llm_calls[k].prompt = prompt}

\* some phase-2 query returned at least one row
SomePhase2ResultNonEmpty ==
    \E i \in DOMAIN engine.query_results :
        /\ engine.query_results[i].result.ok
        /\ engine.query_results[i].result.val.json = "array"
        /\ engine.query_results[i].result.val.rows > 0

\* C22: a reasoning query that is answered has made exactly two LLM calls
\* when some phase-2 result is non-empty, and exactly three when every
\* phase-2 result is empty or an error; no query, answered or not, makes more
\* than one refinement call or more than three LLM calls.
C22_TwoLlmCallsOrThree ==
    /\ Len(llm_calls) <= 3
    /\ Cardinality(CallsFor("refine")) <= 1
    /\ Answered =>
          Len(llm_calls) = IF SomePhase2ResultNonEmpty THEN 2 ELSE 3

\* a query is answered after three LLM calls: its two phase-2 queries found
\* nothing, the refined queries were executed, and the last found a row
C22_Witness ==
    /\ Answered
    /\ Len(engine.query_results) = 2
    /\ ~SomePhase2ResultNonEmpty
    /\ Len(llm_calls) = 3
    /\ engine.iteration = 1
    /\ engine.refined_results # <<>>
    /\ engine.refined_results[Len(engine.refined_results)].result = [ok |-> TRUE, val |-> JsonArray(1)]

\* a query is answered after two LLM calls
AnsweredAfterTwoCalls == Answered /\ Len(llm_calls) = 2

\* C23: when the text the phase-1 call returned holds no query, query()
\* returns a reasoning error, no graph query is ever executed and no further
\* LLM call is ever made.
C23_NoQueryIsReasoningError ==
    (llm_calls # <<>> /\ llm_calls[1].ok /\ llm_calls[1].queries = <<>>) =>
        /\ engine.pc = "returned"
        /\ engine.ret = Some(NoQueriesError)
        /\ graph_calls = <<>>
        /\ Len(llm_calls) = 1

\* the phase-1 call returned a text without query and query() has returned
C23_Witness ==
    /\ llm_calls # <<>>
    /\ llm_calls[1].ok
    /\ llm_calls[1].queries = <<>>
    /\ engine.pc = "returned"

\* phase 2 is over
Phase2Over == engine.pc \notin {"generate", "execute"} /\ engine.cypher_queries # <<>>

\* the cypher texts of a vector of (query, outcome) pairs
CyphersOf(results) == [i \in DOMAIN results |-> results[i].cypher]

\* C24: phase 2 passes the extracted queries to execute_cypher one by one in
\* their order, each exactly once, and collects one outcome per query in the
\* same order, also after a query that failed; a query that failed never
\* makes query() return an error; and the evidence of the interpretation
\* prompt holds, for every phase-2 query in order, its text and, when it
\* failed, its error message.
C24_EveryQueryExecutedOnceInOrder ==
    /\ engine.pc = "execute" =>
          /\ Len(engine.query_results) < Len(engine.cypher_queries)
          /\ graph_calls = SubSeq(engine.cypher_queries, 1, Len(engine.query_results))
          /\ CyphersOf(engine.query_results) = graph_calls
    /\ Phase2Over =>
          /\ Len(engine.query_results) = Len(engine.cypher_queries)
          /\ Len(graph_calls) >= Len(engine.cypher_queries)
          /\ SubSeq(graph_calls, 1, Len(engine.cypher_queries)) = engine.cypher_queries
          /\ CyphersOf(engine.query_results) = engine.cypher_queries
          /\ Len(graph_calls) = Len(engine.cypher_queries) + Len(engine.refined_results)
    /\ engine.pc = "returned" /\ ~engine.ret.val.ok =>
          /\ engine.ret.val \in {LlmError, NoQueriesError}
          /\ llm_calls[Len(llm_calls)].ok => engine.ret.val = NoQueriesError
    /\ \A k \in CallsFor("interpret") :
          /\ Len(llm_calls[k].summary) >= Len(engine.cypher_queries)
          /\ \A i \in DOMAIN engine.query_results :
                /\ llm_calls[k].summary[i].label = "Query"
                /\ llm_calls[k].summary[i].n = i
                /\ llm_calls[k].summary[i].cypher = engine.cypher_queries[i]
                /\ ~engine.query_results[i].result.ok =>
                      llm_calls[k].summary[i].result_str
                          = [error |-> engine.query_results[i].result.err]

\* a query is answered whose first phase-2 query failed and whose second,
\* different, query returned a row
C24_Witness ==
    /\ Answered
    /\ Len(engine.cypher_queries) = 2
    /\ engine.cypher_queries[1] # engine.cypher_queries[2]
    /\ ~engine.query_results[1].result.ok
    /\ engine.query_results[2].result = [ok |-> TRUE, val |-> JsonArray(1)]

----------------------------------------------------------------------------
(* Properties of parse_interpretation *)

Interpreted == interpreted # NotInterpreted

\* the lines of a text that begin with the marker, stripped of it
MarkedLines(text, marker) ==
    {i \in DOMAIN lines(text) : strip_prefix(trim(lines(text)[i]), marker).some}

\* no line of the text begins with a marker
NoMarker(text) == \A m \in Markers : MarkedLines(text, m) = {}

\* the number the only CONFIDENCE: line of a text gives: None when the text
\* has no such line, or several, or one that is no number
OnlyConfidence(text) ==
    IF Cardinality(MarkedLines(text, "CONFIDENCE:")) # 1 THEN None
    ELSE LET i == CHOOSE k \in MarkedLines(text, "CONFIDENCE:") : TRUE
             c == parse_f64(trim(strip_prefix(trim(lines(text)[i]), "CONFIDENCE:").val))
         IN  IF c.ok THEN Some(c.val) ELSE None

InUnitInterval(c) == ~c.nan /\ 0 <= c.tenths /\ c.tenths <= 10

\* what parse_interpretation guarantees about the confidence: a value above
\* 1 gives 1, a value below 0 gives 0, a text without marker is the answer
\* with confidence 0.5, and the confidence lies in [0,1] unless a
\* CONFIDENCE: line reads NaN
ConfidenceClampedUnlessNaN ==
    Interpreted =>
        LET c == OnlyConfidence(interpretation)
        IN  /\ (c.some /\ ~c.val.nan /\ c.val.tenths > 10) => interpreted.confidence = F64(10)
            /\ (c.some /\ ~c.val.nan /\ c.val.tenths < 0) => interpreted.confidence = F64(0)
            /\ NoMarker(interpretation) =>
                  /\ interpreted.answer = trim(interpretation)
                  /\ interpreted.confidence = F64(5)
            /\ \/ InUnitInterval(interpreted.confidence)
               \/ \E i \in MarkedLines(interpretation, "CONFIDENCE:") :
                     "NaN" \in Range(lines(interpretation)[i])

\* C25: for every response, the confidence parse_interpretation returns lies
\* in [0,1]; a CONFIDENCE value above 1 gives 1 and one below 0 gives 0; and
\* a response in which no marker is found becomes the answer as a whole, with
\* confidence 0.5.
C25_ConfidenceInUnitInterval ==
    Interpreted =>
        LET c == OnlyConfidence(interpretation)
        IN  /\ InUnitInterval(interpreted.confidence)
            /\ (c.some /\ ~c.val.nan /\ c.val.tenths > 10) => interpreted.confidence = F64(10)
            /\ (c.some /\ ~c.val.nan /\ c.val.tenths < 0) => interpreted.confidence = F64(0)
            /\ NoMarker(interpretation) =>
                  /\ interpreted.answer = trim(interpretation)
                  /\ interpreted.confidence = F64(5)

\* a response whose CONFIDENCE: line reads NaN has been parsed
ConfidenceIsNaN == Interpreted /\ interpreted.confidence = NaN

\* C26: parse_interpretation applied to the canonical form of an answer, a
\* confidence, entity names and sources returns that answer, those names and
\* those sources, and the confidence clamped into [0,1].
C26_ParsesWhatWasEmitted ==
    (fields.some /\ Interpreted) =>
        /\ interpreted.answer = fields.val.answer
        /\ interpreted.confidence = clamp01(fields.val.confidence)
        /\ interpreted.entities = fields.val.entities
        /\ interpreted.sources = fields.val.sources

\* the texts the four-marker format carries unchanged: an answer of non-empty
\* lines without blank at either end and without marker at the start, and
\* names without comma or blank at either end that are not NONE in any case
Representable(f) ==
    /\ f.answer # <<>>
    /\ \A i \in DOMAIN lines(f.answer) :
          LET l == lines(f.answer)[i]
          IN  l = trim(l) /\ (l = <<>> \/ Head(l) \notin Markers)
    /\ trim(f.answer) = f.answer
    /\ \A names \in {f.entities, f.sources} : \A i \in DOMAIN names :
          /\ names[i] # <<>>
          /\ "," \notin Range(names[i])
          /\ trim(names[i]) = names[i]
          /\ to_uppercase(names[i]) # <<"NONE">>

\* what parse_interpretation does return of representable fields
ParsesRepresentableFields ==
    (fields.some /\ Interpreted /\ Representable(fields.val)) =>
        /\ interpreted.answer = fields.val.answer
        /\ interpreted.confidence = clamp01(fields.val.confidence)
        /\ interpreted.entities = fields.val.entities
        /\ interpreted.sources = fields.val.sources

\* the canonical form of a name that holds a comma has been parsed
NameWithCommaParsed ==
    /\ fields.some
    /\ Interpreted
    /\ fields.val.entities = << <<"x", ",", " ", "y">> >>
    /\ interpreted.entities = << <<"x">>, <<"y">> >>

----------------------------------------------------------------------------
(* Properties of the agents *)

\* the step is the return of call c
ReturnsNow(c) ==
    /\ c \in DOMAIN collects
    /\ collects[c].pc # "returned"
    /\ collects'[c].pc = "returned"

\* C27: when a collect call returns an error, at whatever stage it failed,
\* the agent's last_error is set as it returns: a status() that follows
\* reports an error.
C27_FailedCollectSetsLastError ==
    [][\A c \in DOMAIN collects :
          (ReturnsNow(c) /\ ~collects'[c].ok) =>
              status(agent_state', collects[c].agent).error.some]_vars

\* what the agents do: a collect call that returns an error has set
\* last_error exactly when it failed at a stage of SetsLastError; otherwise
\* it has left the agent's state as it was
FailedCollectSetsLastErrorAtSomeStages ==
    [][\A c \in DOMAIN collects :
          (ReturnsNow(c) /\ ~collects'[c].ok) =>
              IF SetsLastError(collects[c].agent, collects'[c].stage)
              THEN status(agent_state', collects[c].agent).error = Some(collects'[c].stage)
              ELSE agent_state' = agent_state]_vars

\* the first collect of ais failed in transport and its status shows no error
TransportFailureUnrecorded ==
    /\ Len(collects) = 1
    /\ collects[1] = [agent |-> "ais", pc |-> "returned", ok |-> FALSE, stage |-> "transport"]
    /\ ~status(agent_state, "ais").error.some

\* the documents of the calls of an agent that are in the given positions
RECURSIVE DocsOf(_, _, _)
DocsOf(calls, agent, pcs) ==
    IF calls = <<>> THEN 0
    ELSE (IF Head(calls).agent = agent /\ Head(calls).pc \in pcs /\ Head(calls).ok
          THEN Head(calls).docs ELSE 0)
         + DocsOf(Tail(calls), agent, pcs)

\* C28: every agent's documents_collected is 0 before its first collect and
\* is at every moment the total number of documents of its successful collect
\* calls, those that have returned and those that have added their documents
\* and are returning, however the calls of one agent interleave; it never
\* decreases.
C28_DocumentsCollectedIsTotal ==
    /\ \A a \in Collectors :
          /\ status(agent_state, a).documents_collected
                = DocsOf(collects, a, {"counted", "returned"})
          /\ (\A c \in DOMAIN collects : collects[c].agent # a) =>
                status(agent_state, a).documents_collected = 0
    /\ [][\A a \in Collectors :
             status(agent_state', a).documents_collected
                >= status(agent_state, a).documents_collected]_vars

\* two collect calls of gdelt overlap: the second has returned two documents
\* while the first, which has added one, has not returned yet
C28_Witness ==
    /\ Len(collects) = 2
    /\ collects[1] = [agent |-> "gdelt", pc |-> "counted", ok |-> TRUE, docs |-> 1]
    /\ collects[2] = [agent |-> "gdelt", pc |-> "returned", ok |-> TRUE, docs |-> 2]
    /\ status(agent_state, "gdelt").documents_collected = 3

\* two calls of one agent behind a lock were in flight together and both
\* returned documents
BothCollectsCounted ==
    /\ Len(collects) = 2
    /\ collects[1] = [agent |-> "ais", pc |-> "returned", ok |-> TRUE, docs |-> 2]
    /\ collects[2] = [agent |-> "ais", pc |-> "returned", ok |-> TRUE, docs |-> 1]
    /\ status(agent_state, "ais").documents_collected = 3

----------------------------------------------------------------------------
(* Properties of the relationship upsert and of the nodes' times *)

\* the step runs the relationship query once more in the open transaction
RelationshipStored ==
    /\ txn.active
    /\ txn'.active
    /\ Len(txn'.relationships) = Len(txn.relationships) + 1

\* the relationship the last run of the query stored
LastRelationship(t) == t.relationships[Len(t.relationships)]

\* the larger of two confidences
Larger(c, d) == IF c >= d THEN c ELSE d

\* C29: when a relationship is stored whose tuple (source node, target node,
\* relation type, source) already has an edge, that edge stays the only one of
\* the tuple and no edge is added for it; its confidence becomes the larger of
\* the stored and the incoming one; its timestamp becomes the incoming one
\* when that is not empty and stays what it was otherwise.  Storing a
\* relationship once more right after it was stored changes nothing.
C29_UpsertOnExistingTuple ==
    [][RelationshipStored =>
         \E r \in {LastRelationship(txn')} :
            /\ \A p \in EndpointPairs(txn.nodes, r) :
                  \A k \in EdgeMatches(txn.edges, p[1], p[2], r) :
                     /\ EdgeMatches(txn'.edges, p[1], p[2], r) = {k}
                     /\ txn'.edges[k].confidence = Larger(txn.edges[k].confidence, r.confidence)
                     /\ txn'.edges[k].timestamp =
                           IF r.timestamp.some THEN to_rfc3339(r.timestamp.val)
                           ELSE txn.edges[k].timestamp
            /\ (\A p \in EndpointPairs(txn.nodes, r) :
                   EdgeMatches(txn.edges, p[1], p[2], r) # {}) =>
                  Len(txn'.edges) = Len(txn.edges)
            /\ (txn.relationships # <<>> /\ LastRelationship(txn) = r) =>
                  txn'.edges = txn.edges
            /\ StoreRelationship(txn'.nodes, txn'.edges, r) = txn'.edges]_vars

\* an edge from node 1 to node 2 was created with confidence 0.9 and a
\* timestamp, then matched by a relationship of confidence 0.6 without a
\* timestamp, twice: there is one edge, with confidence 0.9 and the timestamp
C29_Witness ==
    /\ txn.active
    /\ Len(txn.relationships) = 3
    /\ txn.relationships[1].timestamp = Some(2)
    /\ txn.relationships[1].confidence = 9
    /\ txn.relationships[2] = [txn.relationships[1] EXCEPT !.timestamp = None, !.confidence = 6]
    /\ txn.relationships[3] = txn.relationships[2]
    /\ txn.relationships[1].source_entity_id = 1
    /\ txn.relationships[1].target_entity_id = 2
    /\ Len(txn.edges) = 1
    /\ txn.edges[1].a # txn.edges[1].b
    /\ txn.edges[1].confidence = 9
    /\ txn.edges[1].timestamp = to_rfc3339(2)

\* an edge stored with the timestamp of instant 2 was matched by the same
\* relationship with the timestamp of instant 1, which replaced it
TimestampReplaced ==
    /\ txn.active
    /\ Len(txn.relationships) = 2
    /\ txn.relationships[1].timestamp = Some(2)
    /\ txn.relationships[2] = [txn.relationships[1] EXCEPT !.timestamp = Some(1)]
    /\ Len(txn.edges) = 1
    /\ txn.edges[1].timestamp = to_rfc3339(1)

\* the instants of a node read back, as node_to_entity reads them
FirstSeen(n) == parse_from_rfc3339(n.first_seen)

LastSeen(n) == parse_from_rfc3339(n.last_seen)

\* C30: every entity node, in the graph and in the open transaction, has
\* first_seen <= last_seen, whatever the order of the creation times of the
\* entities stored.
C30_FirstSeenBeforeLastSeen ==
    /\ \A i \in DOMAIN nodes : FirstSeen(nodes[i]) <= LastSeen(nodes[i])
    /\ \A i \in DOMAIN txn.nodes : FirstSeen(txn.nodes[i]) <= LastSeen(txn.nodes[i])

\* what the upsert does with the times: first_seen is written once, when the
\* node is created, and last_seen is the last_seen of the entity written last
SeenAsWritten ==
    [][(txn.active /\ txn'.active /\ Len(txn'.entities) = Len(txn.entities) + 1) =>
         \E e \in {txn'.entities[Len(txn'.entities)]} :
            /\ \A i \in DOMAIN txn.nodes :
                  txn'.nodes[i].first_seen = txn.nodes[i].first_seen
            /\ \A i \in WrittenNodes(txn.nodes, e) :
                  LastSeen(txn'.nodes[i]) = e.last_seen]_vars

\* a committed node whose last_seen is before its first_seen
SeenBackwards ==
    /\ ~txn.active
    /\ Len(nodes) = 1
    /\ FirstSeen(nodes[1]) = 2
    /\ LastSeen(nodes[1]) = 1
    /\ nodes[1].sources = <<"gdelt", "opensanctions">>

----------------------------------------------------------------------------
(* Properties of the cross-source merge *)

\* the step runs the entity query once more in the open transaction
EntityStored ==
    /\ txn.active
    /\ txn'.active
    /\ Len(txn'.entities) = Len(txn.entities) + 1

\* the entity the last run of the query stored
LastEntity(t) == t.entities[Len(t.entities)]

\* the step is a cross-source merge: the entity query ran and its name match
\* found a node
CrossSourceMerge == EntityStored /\ CrossSourceMatches(txn.nodes, LastEntity(txn')) # {}

\* the properties of a node a cross-source merge must leave alone
Kept(n) == <<n.label, n.id, n.name, n.source, n.source_id, n.first_seen>>

\* what a cross-source merge of e may do to the node n, giving m
MergedOnly(n, m, e) ==
    /\ Kept(m) = Kept(n)
    /\ m.aliases = e.aliases
    /\ m.properties = e.properties
    /\ m.last_seen = to_rfc3339(e.last_seen)
    /\ Range(m.sources) = Range(n.sources) \cup {e.source}
    /\ m.confidence = (IF e.confidence > n.confidence THEN e.confidence ELSE n.confidence)

\* the nodes the step changed
ChangedNodes == {i \in DOMAIN txn.nodes : txn'.nodes[i] # txn.nodes[i]}

\* C34 as claimed: a cross-source merge changes one node, the existing node,
\* and of it only sources, aliases, properties, last_seen and (when the
\* incoming one is strictly greater) confidence; no other node is modified,
\* none is created.
C34_MergeChangesOneNode ==
    [][CrossSourceMerge =>
         /\ Len(txn'.nodes) = Len(txn.nodes)
         /\ Cardinality(ChangedNodes) <= 1
         /\ \A i \in ChangedNodes : MergedOnly(txn.nodes[i], txn'.nodes[i], LastEntity(txn'))]_vars

\* C34 as amended: a cross-source merge changes only the nodes its name match
\* finds (one or several), and of each only sources, aliases, properties,
\* last_seen and (when the incoming one is strictly greater) confidence; their
\* id, name, type, source, source_id and first_seen are unchanged; every other
\* node and every edge is unchanged and no node is created.
C34_MergeFrame ==
    [][CrossSourceMerge =>
         /\ Len(txn'.nodes) = Len(txn.nodes)
         /\ txn'.edges = txn.edges
         /\ \A i \in DOMAIN txn.nodes :
               IF i \in CrossSourceMatches(txn.nodes, LastEntity(txn'))
               THEN MergedOnly(txn.nodes[i], txn'.nodes[i], LastEntity(txn'))
               ELSE txn'.nodes[i] = txn.nodes[i]]_vars

\* an entity of another source, with another id and a name that differs in
\* case, was merged onto the node of the first: the node kept its id and name
\* and holds both sources, beside a node the match did not find
C34_Witness ==
    /\ txn.active
    /\ Len(txn.entities) = 3
    /\ txn.entities[1].source # txn.entities[3].source
    /\ txn.entities[2].source = txn.entities[3].source
    /\ txn.entities[1].id # txn.entities[3].id
    /\ txn.entities[1].name # txn.entities[3].name
    /\ Len(txn.nodes) = 2
    /\ txn.nodes[1].id = txn.entities[1].id
    /\ txn.nodes[1].name = txn.entities[1].name
    /\ txn.nodes[1].sources = <<txn.entities[1].source, txn.entities[3].source>>
    /\ txn.nodes[2].sources = <<txn.entities[2].source>>

----------------------------------------------------------------------------
(* Properties of the refinement round *)

\* query() is in its refinement round
Refining == engine.pc \in {"refine", "execute_refined"}

\* s begins with t
BeginsWith(s, t) == Len(s) >= Len(t) /\ SubSeq(s, 1, Len(t)) = t

\* C35: no step of the refinement round makes query() return: whether the
\* refinement call fails, returns no query, or the refined queries fail or
\* find nothing, query() goes on to the interpretation call, which gets the
\* evidence gathered so far: the phase-2 outcomes, unchanged when the
\* refinement call failed or gave no query, followed by the outcomes of the
\* refined queries otherwise.
C35_RefinementNeverFails ==
    [][/\ (Refining /\ engine' # engine) =>
             /\ engine'.pc \in {"execute_refined", "interpret"}
             /\ engine'.ret = None
             /\ engine'.query_results = engine.query_results
             /\ BeginsWith(engine'.steps, engine.steps)
             /\ BeginsWith(engine'.final_steps_summary, Summary("Query", engine.query_results))
             /\ (engine.pc = "refine" /\ engine'.pc = "interpret") =>
                   /\ ~llm_calls'[Len(llm_calls')].ok \/ llm_calls'[Len(llm_calls')].queries = <<>>
                   /\ engine'.final_steps_summary = Summary("Query", engine.query_results)
                   /\ engine'.steps = engine.steps
             /\ (engine.pc = "execute_refined" /\ engine'.pc = "interpret") =>
                   engine'.final_steps_summary
                      = Summary("Query", engine.query_results)
                           \o Summary("Refined Query", engine'.refined_results)
       /\ (engine.pc = "interpret" /\ engine' # engine) =>
             /\ llm_calls'[Len(llm_calls')].prompt = "interpret"
             /\ llm_calls'[Len(llm_calls')].summary = engine.final_steps_summary]_vars

\* the refinement call failed and the query was answered from the phase-2
\* evidence
C35_Witness ==
    /\ Answered
    /\ Len(llm_calls) = 3
    /\ llm_calls[2].prompt = "refine"
    /\ ~llm_calls[2].ok
    /\ llm_calls[3].summary = Summary("Query", engine.query_results)
    /\ engine.refined_results = <<>>

\* the refinement call returned a text without query and the query was answered
RefinedNothingAnswered ==
    /\ Answered
    /\ Len(llm_calls) = 3
    /\ llm_calls[2].ok
    /\ llm_calls[2].queries = <<>>
    /\ engine.iteration = 0

\* every refined query failed or found nothing and the query was answered
RefinedInVainAnswered ==
    /\ Answered
    /\ Len(engine.refined_results) = 2
    /\ ~engine.refined_results[1].result.ok
    /\ engine.refined_results[2].result = [ok |-> TRUE, val |-> JsonArray(0)]
    /\ engine.iteration = 1

----------------------------------------------------------------------------
(* Properties of the completion of a run *)

\* the ids of the tasks that take the step: the loops whose run moves and
\* the triggered runs whose task moves or ends
ActingIds ==
    {loops[a].run_id : a \in {b \in DOMAIN loops : loops'[b] # loops[b]}}
       \cup {t.run_id : t \in pipelines \ pipelines'}

\* the step registers no run
NoRunRegistered == nextRunId' = nextRunId

\* the record of run id in the registry rs, if any
RecordsOf(rs, id) == {i \in DOMAIN rs : rs[i].run_id = id}

\* C37: a step that registers no run, whatever task takes it (a scheduled or
\* a triggered run, completing or not, also beside another run of the same
\* agent), leaves every record of another run_id unchanged and in its place,
\* changes of its own record neither run_id, agent_name nor started_at, and
\* adds no record: when the record of the run has been evicted, the registry
\* is unchanged.
C37_CompletionTouchesOwnRecordOnly ==
    [][NoRunRegistered =>
         /\ Len(runs') = Len(runs)
         /\ \A i \in DOMAIN runs :
               IF runs[i].run_id \in ActingIds
               THEN /\ runs'[i].run_id = runs[i].run_id
                    /\ runs'[i].agent_name = runs[i].agent_name
                    /\ runs'[i].started_at = runs[i].started_at
               ELSE runs'[i] = runs[i]
         /\ (\A id \in ActingIds : RecordsOf(runs, id) = {}) => runs' = runs]_vars

\* the triggered run whose record was evicted by the registration of a
\* scheduled run of the same agent has ended, after that scheduled run
\* completed: the registry holds no record of it, and the cap's worth of others
C37_Witness ==
    /\ pipelines = {}
    /\ RecordsOf(runs, 1) = {}
    /\ Len(runs) = RUN_CAP
    /\ runs[RUN_CAP].agent_name = "gdelt"
    /\ runs[RUN_CAP].status = "completed"
    /\ runs[RUN_CAP].run_id = RUN_CAP + 1
    /\ runs[1].run_id = 2

\* the triggered run completed while its record was still registered, beside
\* a second triggered run of the same agent that is still running
CompletedBesideTriggered ==
    /\ Cardinality(pipelines) = 1
    /\ Len(runs) = RUN_CAP + 1
    /\ runs[1].run_id = 1
    /\ runs[1].status \in {"completed", "failed"}
    /\ runs[RUN_CAP + 1].agent_name = "gdelt"
    /\ runs[RUN_CAP + 1].status = "running"

----------------------------------------------------------------------------
(* Properties of the store loop of a triggered run *)

\* the task t of a triggered run ends in this step, from its store loop
EndsInStoreLoop(t) ==
    /\ t \in pipelines
    /\ t.pc = "store"
    /\ pipelines' = pipelines \ {t}

\* the number of successful store_extraction calls a task has made
StoresDone(t) == Cardinality({k \in DOMAIN t.calls : t.calls[k] = "store"})

\* C38: the store loop of a triggered run ends at the first store_extraction
\* that fails, whatever results are left, or after the last result.  When it
\* ends with results left, or on a failure of the last call, the run is
\* marked failed with the storage error message and its document and entity
\* counts stay 0; the run is marked completed only after every
\* store_extraction of its results has succeeded, with the counts of the run.
C38_FirstStoreFailureFailsRun ==
    [][\A t \in pipelines : EndsInStoreLoop(t) =>
         \E i \in {FindRun(runs, t.run_id)} :
            /\ i # 0
            /\ runs[i].status = "running"
            /\ runs'[i].status \in {"failed", "completed"}
            /\ t.to_store > 1 => runs'[i].status = "failed"
            /\ runs'[i].status = "failed" =>
                  /\ runs'[i].error = Some("Graph storage failed: graph error")
                  /\ runs'[i].documents_collected = 0
                  /\ runs'[i].entities_extracted = 0
                  /\ runs'[i].finished_at # None
            /\ runs'[i].status = "completed" =>
                  /\ t.to_store = 1
                  /\ StoresDone(t) = Len(t.results) - 1
                  /\ \A k \in DOMAIN t.calls : t.calls[k] \in {"collect", "extract", "store"}
                  /\ runs'[i].error = None
                  /\ runs'[i].documents_collected = t.doc_count
                  /\ runs'[i].entities_extracted = t.entity_count]_vars

\* a triggered run is marked failed by a storage error, with counts 0
C38_Witness ==
    \E i \in DOMAIN runs :
        /\ runs[i].run_id \notin scheduled
        /\ runs[i].status = "failed"
        /\ runs[i].error = Some(PipelineErrorMessage("store"))
        /\ runs[i].documents_collected = 0
        /\ runs[i].entities_extracted = 0
        /\ pipelines = {}

\* what would hold if the store loop never stopped early; it does not hold:
\* the loop ends on a failure with results left
NeverEndsWithResultsLeft ==
    [][\A t \in pipelines : EndsInStoreLoop(t) => t.to_store = 1]_vars

\* a triggered run is completed with two documents
TriggeredCompletedWithTwo ==
    \E i \in DOMAIN runs :
        /\ runs[i].run_id \notin scheduled
        /\ runs[i].status = "completed"
        /\ runs[i].documents_collected = 2

----------------------------------------------------------------------------
(* Properties of the depth of cross_reference *)

\* the lookups the run in cross_reference has made and those it has still to make
LookupsOfRun(a) == loops[a].lookups \o loops[a].targets

\* the run of agent a is in cross_reference
CrossReferencing(a) == loops[a].pc \in InCrossReference

----------------------------------------------------------------------------
(* Properties of the sanctions agent's pagination *)

\* a collect of the sanctions agent is fetching pages
Paging == paging.pc = "fetch"

\* the page the step has fetched and gathered
Gathers == Paging /\ paging'.page.some

\* the fetch_page call of the step has failed
FetchFails == Paging /\ ~paging'.page.some

\* C31: the pagination loop terminates whatever pages the source serves: a
\* collect that is fetching has fetched the pages at the offsets 0,
\* PAGE_LIMIT, ... below its offset, which is at most 10,000; after a page it
\* is over exactly if the page holds fewer records than the limit, or the
\* reported total is reached with it, or the offset advanced by the limit
\* exceeds 10,000, and otherwise it goes on at the offset advanced by the
\* limit; and a collect that is fetching comes to return
C31_PaginationTerminates ==
    /\ [](Paging => /\ paging.offset = paging.pages * PAGE_LIMIT
                    /\ paging.offset <= SAFETY_OFFSET)
    /\ [][Gathers =>
            /\ paging'.pc \in {"fetch", "returned"}
            /\ paging'.pc = "returned" <=>
                  \/ paging'.page.val.results < PAGE_LIMIT
                  \/ /\ paging'.page.val.total.some
                     /\ paging.offset + paging'.page.val.results >= paging'.page.val.total.val
                  \/ paging.offset + PAGE_LIMIT > SAFETY_OFFSET
            /\ paging'.pc = "fetch" => paging'.offset = paging.offset + PAGE_LIMIT]_vars
    /\ Paging ~> ~Paging

\* a collect has returned after the offset exceeded the safety limit
C31_Witness ==
    /\ paging.pc = "returned"
    /\ paging.ret.ok
    /\ paging.offset > SAFETY_OFFSET

\* a collect has returned after a short page that followed full pages
StoppedByShortPage ==
    /\ paging.pc = "returned"
    /\ paging.ret.ok
    /\ paging.pages > 1
    /\ paging.page.val.results < PAGE_LIMIT

\* a collect has returned after the full page with which the total was reached
StoppedByTotal ==
    /\ paging.pc = "returned"
    /\ paging.ret.ok
    /\ paging.page.val.results = PAGE_LIMIT
    /\ paging.page.val.total.some
    /\ paging.page.val.offset + PAGE_LIMIT = paging.page.val.total.val

\* C32: a collect never gathers more than 10,000 records
C32_AtMostTenThousand == paging.all_documents <= SAFETY_OFFSET

\* what the loop does keep to: the pages at the offsets 0 to 10,000 are
\* gathered, 101 pages of at most PAGE_LIMIT records each
AtMostOnePageMore == paging.all_documents <= SAFETY_OFFSET + PAGE_LIMIT

\* a collect has returned 10,100 documents
ReturnedOnePageMore ==
    /\ paging.pc = "returned"
    /\ paging.ret.ok
    /\ paging.ret.documents = SAFETY_OFFSET + PAGE_LIMIT

\* C40: when a page fetch fails, collect returns the error and no document,
\* whatever pages it had gathered; documents_collected is left as it was,
\* last_error is set to the error and last_run to the time of the call
C40_FailedFetchDiscardsPages ==
    [][FetchFails =>
          /\ paging'.pc = "returned"
          /\ ~paging'.ret.ok
          /\ DOMAIN paging'.ret = {"ok", "error"}
          /\ sanctions_state'.documents_collected = sanctions_state.documents_collected
          /\ sanctions_state'.last_error = Some(paging'.ret.error)
          /\ sanctions_state'.last_run = Some(paging.call)]_vars

\* the second collect has failed after it had gathered pages, the first one
\* having returned documents
C40_Witness ==
    /\ paging.pc = "returned"
    /\ paging.call = 2
    /\ ~paging.ret.ok
    /\ paging.pages > 0
    /\ paging.all_documents > 0
    /\ sanctions_state.documents_collected > 0
    /\ sanctions_state.last_error.some

----------------------------------------------------------------------------
(* Properties of parse_events *)

\* the rows of the export that lie within the cap: its first 5,000 lines
WithinCap == SubSeq(csv, 1, IF Len(csv) < MAX_EVENTS THEN Len(csv) ELSE MAX_EVENTS)

\* the row has at least 58 columns and a first field that is not empty
HasColumnsAndKey(row) == row.columns >= GDELT_EVENT_COLUMNS /\ row.key # <<>>

\* the row has at least 58 columns and a first field that is not empty once
\* the white space around it is removed
HasColumnsAndTrimmedKey(row) ==
    row.columns >= GDELT_EVENT_COLUMNS /\ trim(row.key) # <<>>

\* the documents are those of the given rows, one for each and in their order
OneForEach(docs, rows) ==
    /\ Len(docs) = Len(rows)
    /\ \A i \in DOMAIN docs : docs[i].source_id = <<"gdelt-event-">> \o trim(rows[i].key)

\* C33 as stated: parse_events returns, and returns one document for each row
\* within the cap that has at least 58 columns and a non-empty primary key,
\* and for no other row; it returns at most 5,000 documents
C33_DocumentIffColumnsAndKey ==
    events.pc # "called" =>
        /\ events.pc = "returned"
        /\ Len(events.documents) <= MAX_EVENTS
        /\ OneForEach(events.documents, SelectSeq(WithinCap, HasColumnsAndKey))

\* C33, amended: the primary key is non-empty once the white space around it
\* is removed: parse_events returns, and returns one document for each row
\* among the first 5,000 lines that has at least 58 columns and such a key,
\* and for no other row; it returns at most 5,000 documents
C33_DocumentIffColumnsAndTrimmedKey ==
    events.pc # "called" =>
        /\ events.pc = "returned"
        /\ Len(events.documents) <= MAX_EVENTS
        /\ OneForEach(events.documents, SelectSeq(WithinCap, HasColumnsAndTrimmedKey))

\* an export of more than 5,000 rows, all with 58 columns or more and a key,
\* has been parsed: 5,000 documents are returned, of rows of both of its runs
C33_Witness ==
    /\ events.pc = "returned"
    /\ Len(csv) > MAX_EVENTS
    /\ HasColumnsAndTrimmedKey(csv[Len(csv)])
    /\ Len(events.documents) = MAX_EVENTS
    /\ events.documents[1].source_id # events.documents[MAX_EVENTS].source_id

\* rows beyond the first 5,000 lines are left out although the rows before
\* them gave no document
LeftOutBeyondSkippedRows ==
    /\ events.pc = "returned"
    /\ Len(csv) > MAX_EVENTS
    /\ HasColumnsAndTrimmedKey(csv[Len(csv)])
    /\ events.documents = <<>>

\* a row with 58 columns whose key is white space has been skipped, and the
\* row after it has given a document
WhitespaceKeySkipped ==
    /\ events.pc = "returned"
    /\ Len(csv) = 2
    /\ csv[1] = [columns |-> GDELT_EVENT_COLUMNS, key |-> <<" ">>]
    /\ Len(events.documents) = 1

\* a row one column short has been skipped, and the row after it has given a
\* document
ShortRowSkipped ==
    /\ events.pc = "returned"
    /\ Len(csv) = 2
    /\ csv[1].columns = GDELT_EVENT_COLUMNS - 1
    /\ csv[1].key = <<"7">>
    /\ Len(events.documents) = 1

----------------------------------------------------------------------------
(* Properties of parse_llm_response's reading of the text *)

\* the text without the fence markers around it and the white space around
\* those
WithoutFences(s) ==
    LET t == trim(s)
        u == IF t # <<>> /\ Head(t) = "FENCE" THEN Tail(t) ELSE t
        v == IF u # <<>> /\ u[Len(u)] = "FENCE" THEN SubSeq(u, 1, Len(u) - 1) ELSE u
    IN  trim(v)

\* the substring from the first '{' to the last '}' of the text, empty if
\* there is none
FirstToLastBrace(s) ==
    IF \E i, j \in DOMAIN s : i < j /\ s[i] = "{" /\ s[j] = "}"
    THEN SubSeq(s, CHOOSE i \in DOMAIN s : s[i] = "{" /\ \A k \in 1..(i - 1) : s[k] # "{",
                   CHOOSE j \in DOMAIN s : s[j] = "}" /\ \A k \in (j + 1)..Len(s) : s[k] # "}")
    ELSE <<>>

\* the text is a JSON document of an extraction
ValidJson(s) == s \in {<<"{", "members", "}">>, <<"{", "}">>}

\* C36: for every response text parse_llm_response returns; it returns Ok if
\* the substring from the first '{' to the last '}' of the text, the fence
\* markers around it removed, is a valid extraction JSON object, and the
\* typed extraction error if it is not
C36_ParsesFirstToLastBrace ==
    parse_result.pc # "called" =>
        /\ parse_result.pc = "returned"
        /\ parse_result.ok <=> ValidJson(FirstToLastBrace(WithoutFences(raw_json)))
        /\ ~parse_result.ok => parse_result.error.kind = "Extraction"

\* a valid object after other text was read as a whole and not parsed
ProseBeforeObjectFails ==
    /\ raw_json = <<"text", "{", "members", "}">>
    /\ parse_result.pc = "returned"
    /\ ~parse_result.ok

\* a fenced response whose last '}' comes before its first '{' made the slice
\* panic
SliceOutOfOrder ==
    /\ raw_json = <<"FENCE", "}", "text", "{">>
    /\ parse_result.pc = "panicked"

\* a fenced object has been parsed
FencedObjectParsed ==
    /\ raw_json = <<"FENCE", "text", "{", "}", "FENCE">>
    /\ parse_result.pc = "returned"
    /\ parse_result.ok

\* what the code keeps to: a text that does not panic gives Ok exactly if
\* the text handed to serde_json is a JSON object of an extraction, which is
\* cut to the braces only for a text that begins with a fence
ParsesCleaned ==
    parse_result.pc = "returned" =>
        parse_result.ok <=>
            IF trim(raw_json) # <<>> /\ Head(trim(raw_json)) = "FENCE"
            THEN ValidJson(FirstToLastBrace(trim(raw_json)))
            ELSE ValidJson(trim(raw_json))

====
